---------------------------- MODULE Spec2Model ----------------------------
(***************************************************************************)
(* A model of the riscv-emu workspace: the rangeset crate (RangeSet), the  *)
(* emulator's Memory and Emulator (src/rv/src/emulator.rs), the decoders   *)
(* (src/rv/src/instructions.rs) and the process set-up and syscall loop of *)
(* main (src/rv/src/main.rs).                                              *)
(*                                                                         *)
(* A u32 that can leave the range of TLC's integers (a register, the pc,   *)
(* an instruction word, an effective address) is a pair of two 16-bit      *)
(* halves <<hi, lo>>.  Addresses that the code has already bounds-checked  *)
(* against mem.len(), and the bounds of the RangeSet, are plain naturals.  *)
(***************************************************************************)
EXTENDS Integers, Sequences, FiniteSets, TLC

VARIABLES
    overflow_checks, \* build profile: TRUE = u32 `+`/`-` panic on overflow (debug), FALSE = wrap (release)
    elf,             \* the Elf handed to Emulator::load
    mem,             \* Memory.mem   : [0..len-1 -> byte]
    perms,           \* Memory.perms : [0..len-1 -> permission byte]
    free,            \* Memory.free  : RangeSet.ranges, a sequence of <<start, end>>
    pc,              \* Emulator.pc
    regs,            \* Emulator.regs: [1..31 -> u32]
    lpc,             \* the local `pc` of Emulator::run
    phase,           \* where the process is
    ret,             \* the value the last operation returned
    main,            \* the locals of main: stack and heap blocks, sp, current_brk
    steps,           \* instructions executed so far
    claimed,         \* history: the addresses of the segments loaded and of the allocations returned
    call,            \* the last library call made by a driver: operation and arguments
    written          \* history of the process: address -> the byte last written to it since it was allocated

vars == <<overflow_checks, elf, mem, perms, free, pc, regs, lpc, phase, ret, main, steps, claimed, call,
          written>>

---------------------------------------------------------------------------
(* Bounds of the model. *)

\* RangeSet driver: interval bounds and arguments are drawn from 0..RsMax (+1).
RsMax == 4

\* RangeSet driver: a call that would leave more than MaxRanges stored ranges is not made.
MaxRanges == 2

\* Allocation driver: Memory::new(AllocMemSize).
AllocMemSize == 9

\* Syscall driver: the heap of main (2 MiB) in bytes, room for one stat struct.
SysHeapSize == 132

\* Memory driver: Memory::new(MemSize).
MemSize == 6

\* Process: the memory, the stack and the heap of main, in 4-byte words.
MemoryWords == 18

StackWords == 8

HeapWords == 2

\* Process: the instructions of a guest program.
ProgLen == 2

\* Process: the number of instructions run executes.
MaxSteps == 4

\* SpecExec: the bytes of the data window of the memory.
ExecMemSize == 8

\* SpecFit: the number of blocks a loop of remove_first_fit calls may take.
MaxFits == 4

---------------------------------------------------------------------------
(* u32 values as two 16-bit halves <<hi, lo>>. *)

Half == 65536

Mk(h, l) == <<h, l>>

Hi(w) == w[1]

Lo(w) == w[2]

\* a value below 2^16
Lit(n) == Mk(0, n)

Zero == Lit(0)

\* u32 comparisons
Lt32(a, b) == Hi(a) < Hi(b) \/ (Hi(a) = Hi(b) /\ Lo(a) < Lo(b))

Ge32(a, b) == ~Lt32(a, b)

\* a.wrapping_add(b)
WrappingAdd(a, b) ==
    LET l == Lo(a) + Lo(b) IN
    Mk((Hi(a) + Hi(b) + (l \div Half)) % Half, l % Half)

\* does a + b leave the u32 range
AddOverflows(a, b) == Hi(a) + Hi(b) + ((Lo(a) + Lo(b)) \div Half) >= Half

\* a.wrapping_sub(b)
WrappingSub(a, b) ==
    LET l == Lo(a) - Lo(b) + Half IN
    Mk((Hi(a) - Hi(b) - (IF l < Half THEN 1 ELSE 0) + Half) % Half, l % Half)

\* does a - b leave the u32 range
SubOverflows(a, b) == Lt32(a, b)

\* The u32 `+` of the source: with overflow checks (the dev profile) an overflow
\* panics, without them (the release profile) it wraps.
AddPanics(a, b) == overflow_checks /\ AddOverflows(a, b)

\* bitwise and, or, xor of two naturals
RECURSIVE BitAnd(_, _)
BitAnd(a, b) ==
    IF a = 0 \/ b = 0 THEN 0
    ELSE (a % 2) * (b % 2) + 2 * BitAnd(a \div 2, b \div 2)

RECURSIVE BitOr(_, _)
BitOr(a, b) ==
    IF a = 0 THEN b
    ELSE IF b = 0 THEN a
    ELSE (IF a % 2 = 1 \/ b % 2 = 1 THEN 1 ELSE 0) + 2 * BitOr(a \div 2, b \div 2)

RECURSIVE BitXor(_, _)
BitXor(a, b) ==
    IF a = 0 THEN b
    ELSE IF b = 0 THEN a
    ELSE ((a + b) % 2) + 2 * BitXor(a \div 2, b \div 2)

\* u32 `&`, `|`, `^`, `!`
And32(a, b) == Mk(BitAnd(Hi(a), Hi(b)), BitAnd(Lo(a), Lo(b)))

Or32(a, b) == Mk(BitOr(Hi(a), Hi(b)), BitOr(Lo(a), Lo(b)))

Xor32(a, b) == Mk(BitXor(Hi(a), Hi(b)), BitXor(Lo(a), Lo(b)))

Not32(a) == Mk(Half - 1 - Hi(a), Half - 1 - Lo(a))

\* u32 `<<` and `>>` by n in 0..31
Shl32(a, n) ==
    IF n >= 16
    THEN Mk((Lo(a) * 2^(n - 16)) % Half, 0)
    ELSE Mk(((Hi(a) * 2^n) % Half) + (Lo(a) \div 2^(16 - n)), (Lo(a) * 2^n) % Half)

Shr32(a, n) ==
    IF n >= 16
    THEN Mk(0, Hi(a) \div 2^(n - 16))
    ELSE Mk(Hi(a) \div 2^n, (Lo(a) \div 2^n) + (Hi(a) % 2^n) * 2^(16 - n))

\* is bit 31 set: the value is negative as i32
Negative(a) == Hi(a) >= Half \div 2

\* Sar32 that shifts zeros in: the shift of the u32, not of the i32
Sar32_logical(a, n) == Shr32(a, n)

\* (a as i32 >> n) as u32
Sar32(a, n) == IF Negative(a) THEN Not32(Shr32(Not32(a), n)) ELSE Shr32(a, n)

\* (a as i32) < (b as i32)
LtSigned(a, b) ==
    Lt32(Mk((Hi(a) + Half \div 2) % Half, Lo(a)), Mk((Hi(b) + Half \div 2) % Half, Lo(b)))

\* 1 << k and (1 << k) - 1 as u32, k in 0..31
Bit32(k) == Shl32(Lit(1), k)

LowMask(k) == IF k >= 16 THEN Mk(2^(k - 16) - 1, Half - 1) ELSE Mk(0, 2^k - 1)

\* `as u8`, `as u16` of a u32
AsU8(a) == Lo(a) % 256

AsU16(a) == Lo(a)

---------------------------------------------------------------------------
(* rangeset: RangeSet *)

RangeSet_new(start, end) == << <<start, end>> >>

\* RangeSet_includes without the test of the end against the range's end
RangeSet_includes_no_end(range, start, end) ==
    /\ start >= range[1]
    /\ start < range[2]

\* the closure of `find` in remove
RangeSet_includes(range, start, end) ==
    /\ start >= range[1]
    /\ start < range[2]
    /\ end <= range[2]

\* index (1-based) of the first range that includes [start, end), 0 for None
RangeSet_find(ranges, start, end) ==
    IF \E i \in 1..Len(ranges) : RangeSet_includes(ranges[i], start, end)
    THEN CHOOSE i \in 1..Len(ranges) :
            /\ RangeSet_includes(ranges[i], start, end)
            /\ \A j \in 1..(i-1) : ~RangeSet_includes(ranges[j], start, end)
    ELSE 0

SeqRemoveAt(s, i) == SubSeq(s, 1, i-1) \o SubSeq(s, i+1, Len(s))

SeqInsertAt(s, i, x) == SubSeq(s, 1, i-1) \o <<x>> \o SubSeq(s, i, Len(s))

\* RangeSet::remove: [res, ranges]
RangeSet_remove(ranges, start, end) ==
    LET ii == RangeSet_find(ranges, start, end) IN
    IF ii = 0
    THEN [res |-> "OutOfBounds", ranges |-> ranges]
    ELSE LET range == ranges[ii] IN
         [res |-> "Ok",
          ranges |->
            IF start = range[1] /\ end = range[2]
            THEN SeqRemoveAt(ranges, ii)
            ELSE IF start = range[1]
            THEN [ranges EXCEPT ![ii] = <<end, range[2]>>]
            ELSE IF end = range[2]
            THEN [ranges EXCEPT ![ii] = <<range[1], start>>]
            ELSE SeqInsertAt([ranges EXCEPT ![ii] = <<range[1], start>>],
                             ii + 1, <<end, range[2]>>)]

\* RangeSet_fits with a strict comparison: an exact fit is refused
RangeSet_fits_strict(range, size) == size < range[2] - range[1]

\* the closure of `find` in remove_first_fit
RangeSet_fits(range, size) == size <= range[2] - range[1]

\* index (1-based) of the first range that fits, 0 for None
RangeSet_first_fit(ranges, size) ==
    IF \E i \in 1..Len(ranges) : RangeSet_fits(ranges[i], size)
    THEN CHOOSE i \in 1..Len(ranges) :
            /\ RangeSet_fits(ranges[i], size)
            /\ \A j \in 1..(i-1) : ~RangeSet_fits(ranges[j], size)
    ELSE 0

\* RangeSet_remove_first_fit that takes the block from the end of the range that fits
RangeSet_remove_last_fit(ranges, size) ==
    LET fit == RangeSet_first_fit(ranges, size) IN
    IF fit = 0
    THEN [res |-> "NoFit", start |-> 0, end |-> 0, ranges |-> ranges]
    ELSE LET end == ranges[fit][2]
             r == RangeSet_remove(ranges, end - size, end)
         IN  [res |-> r.res, start |-> end - size, end |-> end, ranges |-> r.ranges]

\* RangeSet::remove_first_fit: [res, start, end, ranges]
RangeSet_remove_first_fit(ranges, size) ==
    LET fit == RangeSet_first_fit(ranges, size) IN
    IF fit = 0
    THEN [res |-> "NoFit", start |-> 0, end |-> 0, ranges |-> ranges]
    ELSE LET start == ranges[fit][1]
             r == RangeSet_remove(ranges, start, start + size)
         IN  [res |-> r.res, start |-> start, end |-> start + size, ranges |-> r.ranges]

---------------------------------------------------------------------------
(* emulator.rs: permissions and Memory.  A Memory is a record                *)
(* [mem, perms, free]; its operations return the result and the new Memory. *)

PERM_NONE == 0

PERM_READ == 1

PERM_WRITE == 2

PERM_EXEC == 4

PERM_RAW == 8

\* test_perm that is content with any permission bit
test_perm_any(permission, byte) == byte # 0

test_perm(permission, byte) == BitAnd(permission, byte) # 0

Ok == [kind |-> "Ok"]

OutOfBounds(start, end) == [kind |-> "OutOfBounds", start |-> start, end |-> end]

BadPermissions(start, end, access, byte) ==
    [kind |-> "BadPermissions", start |-> start, end |-> end, access |-> access, perms |-> byte]

\* MemoryError::from_range_error
OutOfMemory(err) == [kind |-> "OutOfMemory", err |-> err]

\* a panic of the host process: an overflow of a checked u32 operation, an
\* unwrap of an Err, a slice index out of order
Panic(msg) == [kind |-> "Panic", msg |-> msg]

MemLen(m) == Cardinality(DOMAIN m.mem)

Memory_new(size) ==
    [mem   |-> [a \in 0..(size - 1) |-> 0],
     perms |-> [a \in 0..(size - 1) |-> 0],
     free  |-> RangeSet_new(0, size)]

\* `x as usize >= self.mem.len()` for a u32 x
GeLen(m, x) == Hi(x) > 0 \/ Lo(x) >= MemLen(m)

\* check_bounds with `>` for the end: a range may end at mem.len()
check_bounds_end_inclusive(m, start, end) ==
    IF GeLen(m, start) \/ Hi(end) > 0 \/ Lo(end) > MemLen(m)
    THEN OutOfBounds(start, end)
    ELSE Ok

\* check_bounds that tests only the start of the range
check_bounds_start_only(m, start, end) ==
    IF GeLen(m, start) THEN OutOfBounds(start, end) ELSE Ok

\* Memory::check_bounds of the Range start..end
check_bounds(m, start, end) ==
    IF GeLen(m, start) \/ GeLen(m, end)
    THEN OutOfBounds(start, end)
    ELSE Ok

\* the addresses `for ii in start..end` visits, both ends below mem.len()
RangeAddrs(start, end) == Lo(start)..(Lo(end) - 1)

\* Memory::set_permissions: [res, m]
set_permissions(m, start, end, perm) ==
    LET b == check_bounds(m, start, end) IN
    IF b.kind # "Ok"
    THEN [res |-> b, m |-> m]
    ELSE [res |-> Ok,
          m |-> [m EXCEPT !.perms =
                    [a \in DOMAIN m.perms |->
                        IF a \in RangeAddrs(start, end) THEN perm ELSE m.perms[a]]]]

\* Memory::check_permission, called on a range inside the memory
check_permission(m, start, end, perm) ==
    LET bad == {a \in RangeAddrs(start, end) : ~test_perm(perm, m.perms[a])} IN
    IF bad = {}
    THEN Ok
    ELSE LET first == CHOOSE a \in bad : \A c \in bad : a <= c
         IN  BadPermissions(start, end, perm, m.perms[first])

\* &self.mem[start..end]
Slice(m, start, end) == [i \in 1..(Lo(end) - Lo(start)) |-> m.mem[Lo(start) + i - 1]]

\* Memory::read of the Range start..end: [res, bytes]
Memory_read(m, start, end, perm) ==
    LET b == check_bounds(m, start, end)
        p == IF perm # PERM_NONE THEN check_permission(m, start, end, perm) ELSE Ok
    IN  IF b.kind # "Ok" THEN [res |-> b, bytes |-> << >>]
        ELSE IF p.kind # "Ok" THEN [res |-> p, bytes |-> << >>]
        ELSE IF Lo(start) > Lo(end)
        THEN [res |-> Panic("slice index starts after its end"), bytes |-> << >>]
        ELSE [res |-> Ok, bytes |-> Slice(m, start, end)]

\* <$ty>::from_le_bytes(slice) as u32
from_le_bytes_u(bytes) ==
    IF Len(bytes) = 1 THEN Lit(bytes[1])
    ELSE IF Len(bytes) = 2 THEN Lit(bytes[1] + 256 * bytes[2])
    ELSE Mk(bytes[3] + 256 * bytes[4], bytes[1] + 256 * bytes[2])

\* from_le_bytes_i that extends with zeros
from_le_bytes_i_zero(bytes) == from_le_bytes_u(bytes)

\* <$ty>::from_le_bytes(slice) as i32 as u32, for i8 and i16
from_le_bytes_i(bytes) ==
    IF Len(bytes) = 1
    THEN IF bytes[1] >= 128 THEN Mk(65535, 65280 + bytes[1]) ELSE Lit(bytes[1])
    ELSE LET v == bytes[1] + 256 * bytes[2] IN
         IF v >= 32768 THEN Mk(65535, v) ELSE Lit(v)

\* the body of readu_impl / readi_impl: [res, bytes]
read_impl(m, addr, SIZE, perm) ==
    IF AddPanics(addr, Lit(SIZE))
    THEN [res |-> Panic("attempt to add with overflow"), bytes |-> << >>]
    ELSE Memory_read(m, addr, WrappingAdd(addr, Lit(SIZE)), perm)

\* readu_impl!: [res, val]
readu_impl(m, addr, SIZE, perm) ==
    LET r == read_impl(m, addr, SIZE, perm) IN
    IF r.res.kind # "Ok" THEN [res |-> r.res, val |-> Zero]
    ELSE [res |-> Ok, val |-> from_le_bytes_u(r.bytes)]

\* readi_impl!: [res, val]
readi_impl(m, addr, SIZE, perm) ==
    LET r == read_impl(m, addr, SIZE, perm) IN
    IF r.res.kind # "Ok" THEN [res |-> r.res, val |-> Zero]
    ELSE [res |-> Ok, val |-> from_le_bytes_i(r.bytes)]

read_u8(m, addr, perm) == readu_impl(m, addr, 1, perm)

read_u16(m, addr, perm) == readu_impl(m, addr, 2, perm)

read_u32(m, addr, perm) == readu_impl(m, addr, 4, perm)

read_i8(m, addr, perm) == readi_impl(m, addr, 1, perm)

read_i16(m, addr, perm) == readi_impl(m, addr, 2, perm)

\* ClearRaw that sets READ on every written byte
ClearRaw_always_read(byte) ==
    IF BitAnd(byte, PERM_RAW) # 0
    THEN BitOr(byte - PERM_RAW, PERM_READ)
    ELSE BitOr(byte, PERM_READ)

\* ClearRaw that sets READ and keeps RAW
ClearRaw_keeps_raw(byte) ==
    IF BitAnd(byte, PERM_RAW) # 0
    THEN BitOr(byte, PERM_READ)
    ELSE byte

\* the loop of Memory::write that resets the RAW bit and sets the READ bit
ClearRaw(byte) ==
    IF BitAnd(byte, PERM_RAW) # 0
    THEN BitOr(byte - PERM_RAW, PERM_READ)
    ELSE byte

\* Memory::write copying the slice last byte first
Memory_write_reversed(m, addr, perm, data) ==
    IF AddPanics(addr, Lit(Len(data)))
    THEN [res |-> Panic("attempt to add with overflow"), m |-> m]
    ELSE
    LET end == WrappingAdd(addr, Lit(Len(data)))
        b == check_bounds(m, addr, end)
        p == IF perm # 0 THEN check_permission(m, addr, end, perm) ELSE Ok
    IN  IF b.kind # "Ok" THEN [res |-> b, m |-> m]
        ELSE IF p.kind # "Ok" THEN [res |-> p, m |-> m]
        ELSE [res |-> Ok,
              m |-> [m EXCEPT
                 !.perms = [a \in DOMAIN m.perms |->
                              IF a \in RangeAddrs(addr, end)
                              THEN ClearRaw(m.perms[a]) ELSE m.perms[a]],
                 !.mem = [a \in DOMAIN m.mem |->
                              IF a >= Lo(addr) /\ a < Lo(addr) + Len(data)
                              THEN data[Len(data) - (a - Lo(addr))] ELSE m.mem[a]]]]

\* Memory::write: [res, m]
Memory_write(m, addr, perm, data) ==
    IF AddPanics(addr, Lit(Len(data)))
    THEN [res |-> Panic("attempt to add with overflow"), m |-> m]
    ELSE
    LET end == WrappingAdd(addr, Lit(Len(data)))
        b == check_bounds(m, addr, end)
        p == IF perm # 0 THEN check_permission(m, addr, end, perm) ELSE Ok
    IN  IF b.kind # "Ok" THEN [res |-> b, m |-> m]
        ELSE IF p.kind # "Ok" THEN [res |-> p, m |-> m]
        ELSE IF Lo(addr) + Len(data) > MemLen(m)
        THEN [res |-> Panic("slice index out of range"), m |-> m]
        ELSE [res |-> Ok,
              m |-> [m EXCEPT
                 !.perms = [a \in DOMAIN m.perms |->
                              IF a \in RangeAddrs(addr, end)
                              THEN ClearRaw(m.perms[a]) ELSE m.perms[a]],
                 !.mem = [a \in DOMAIN m.mem |->
                              IF a >= Lo(addr) /\ a < Lo(addr) + Len(data)
                              THEN data[a - Lo(addr) + 1] ELSE m.mem[a]]]]

\* <u8>::to_le_bytes, <u16>::to_le_bytes, <u32>::to_le_bytes
to_le_bytes_u8(val) == <<val>>

to_le_bytes_u16(val) == <<val % 256, val \div 256>>

to_le_bytes_u32(val) == <<Lo(val) % 256, Lo(val) \div 256, Hi(val) % 256, Hi(val) \div 256>>

\* write_impl!: val is a u8, a u16 (naturals) or a u32
write_u8(m, addr, perm, val) == Memory_write(m, addr, perm, to_le_bytes_u8(val))

write_u16(m, addr, perm, val) == Memory_write(m, addr, perm, to_le_bytes_u16(val))

write_u32(m, addr, perm, val) == Memory_write(m, addr, perm, to_le_bytes_u32(val))

\* allocate that leaves the block it returns in the free set
Memory_allocate_keeps_free(m, size, perm) ==
    LET f == RangeSet_remove_first_fit(m.free, size) IN
    IF f.res # "Ok"
    THEN [res |-> OutOfMemory(f.res), start |-> 0, end |-> 0, m |-> m]
    ELSE LET sp == set_permissions(m, Lit(f.start), Lit(f.end), perm)
         IN  [res |-> sp.res, start |-> f.start, end |-> f.end, m |-> sp.m]

\* Memory::allocate: [res, start, end, m]
Memory_allocate(m, size, perm) ==
    LET f == RangeSet_remove_first_fit(m.free, size) IN
    IF f.res # "Ok"
    THEN [res |-> OutOfMemory(f.res), start |-> 0, end |-> 0, m |-> m]
    ELSE LET m1 == [m EXCEPT !.free = f.ranges]
             sp == set_permissions(m1, Lit(f.start), Lit(f.end), perm)
         IN  [res |-> sp.res, start |-> f.start, end |-> f.end, m |-> sp.m]

---------------------------------------------------------------------------
(* elf: Flags and Segment; emulator.rs: Emulator::load.                     *)
(* A Segment is [load_address, file_size, size, flags, data] and an Elf is  *)
(* [entry, load_segments].  The segments of the model lie below 2^16, where *)
(* the u32 additions of load cannot overflow.                                *)

Flags_r(flags) == BitAnd(flags, 4) # 0

Flags_w(flags) == BitAnd(flags, 2) # 0

Flags_x(flags) == BitAnd(flags, 1) # 0

\* the permission byte load derives from the segment's flags
segment_perm(segment) ==
    BitOr(IF Flags_r(segment.flags) THEN PERM_READ ELSE 0,
    BitOr(IF Flags_w(segment.flags) THEN PERM_WRITE ELSE 0,
          IF Flags_x(segment.flags) THEN PERM_EXEC ELSE 0))

\* mem_end of load: start + size, then "align up to next word"
segment_mem_end(segment) ==
    LET mem_end == segment.load_address + segment.size IN
    ((mem_end + 4) \div 4) * 4

\* the loop of Emulator::load from segment i on: [res, m, done], done the
\* number of segments whose iteration completed
RECURSIVE load_segments(_, _, _)
load_segments(m, segs, i) ==
    IF i > Len(segs)
    THEN [res |-> Ok, m |-> m, done |-> Len(segs)]
    ELSE
    LET segment == segs[i]
        start == segment.load_address
        w == Memory_write(m, Lit(start), PERM_NONE, segment.data)
    IN  IF w.res.kind # "Ok"
        THEN [res |-> w.res, m |-> w.m, done |-> i - 1]
        ELSE
        LET perm == segment_perm(segment)
            mem_end == segment_mem_end(segment)
            r == RangeSet_remove(w.m.free, start, mem_end)
        IN  IF r.res # "Ok"
            THEN [res |-> OutOfMemory(r.res), m |-> w.m, done |-> i - 1]
            ELSE
            LET sp == set_permissions([w.m EXCEPT !.free = r.ranges],
                                      Lit(start), Lit(mem_end), perm)
            IN  IF sp.res.kind # "Ok"
                THEN [res |-> sp.res, m |-> sp.m, done |-> i - 1]
                ELSE load_segments(sp.m, segs, i + 1)

\* Emulator::load (the assignment of pc is made by the action): [res, m, done]
Emulator_load(m, e) == load_segments(m, e.load_segments, 1)

\* the addresses the first n segments occupy
SegmentAddrs(segs, n) ==
    UNION {segs[i].load_address..(segment_mem_end(segs[i]) - 1) : i \in 1..n}

---------------------------------------------------------------------------
(* Values the variables hold where a specification does not use them. *)

NoCall == [op |-> "none"]

NoRet == [kind |-> "none"]

NoMain == [sp |-> 0]

NoElf == [entry |-> Zero, load_segments |-> << >>]

ZeroRegs == [r \in 1..31 |-> Zero]

---------------------------------------------------------------------------
(* instructions.rs: the decoders.  A Reg is its number 0..31. *)

\* instr[11:7], instr[14:12], instr[19:15], instr[24:20] as the parsers extract them
field_rd(instr) == AsU8(Shr32(And32(instr, LowMask(12)), 7))

field_funct3(instr) == AsU8(Shr32(And32(instr, LowMask(15)), 12))

field_rs1(instr) == AsU8(Shr32(And32(instr, LowMask(20)), 15))

field_rs2(instr) == AsU8(Shr32(And32(instr, LowMask(25)), 20))

UType_parse(instr) ==
    [imm |-> And32(instr, Not32(LowMask(12))),
     rd  |-> field_rd(instr)]

JType_parse(instr) ==
    [imm |-> Or32(Or32(Shl32(Shr32(And32(instr, Bit32(31)), 31), 20),
                       Shl32(Shr32(And32(instr, LowMask(31)), 21), 1)),
                  Or32(Shl32(Shr32(And32(instr, LowMask(21)), 20), 11),
                       Shl32(Shr32(And32(instr, LowMask(20)), 12), 12))),
     rd  |-> field_rd(instr)]

IType_parse(instr) ==
    [imm    |-> Sar32(instr, 20),
     rs1    |-> field_rs1(instr),
     funct3 |-> field_funct3(instr),
     rd     |-> field_rd(instr)]

BType_parse(instr) ==
    [imm |-> Or32(Or32(Shl32(Sar32(instr, 31), 12),
                       Shl32(Shr32(And32(instr, LowMask(31)), 25), 5)),
                  Or32(Shl32(Shr32(And32(instr, LowMask(12)), 8), 1),
                       Shl32(Shr32(And32(instr, LowMask(8)), 7), 11))),
     rs2    |-> field_rs2(instr),
     rs1    |-> field_rs1(instr),
     funct3 |-> field_funct3(instr)]

SType_parse(instr) ==
    [imm |-> Or32(Shl32(Sar32(instr, 25), 5),
                  Shr32(And32(instr, LowMask(12)), 7)),
     rs2    |-> field_rs2(instr),
     rs1    |-> field_rs1(instr),
     funct3 |-> field_funct3(instr)]

RType_parse(instr) ==
    [funct7 |-> AsU8(Shr32(instr, 25)),
     rs2    |-> field_rs2(instr),
     rs1    |-> field_rs1(instr),
     funct3 |-> field_funct3(instr),
     rd     |-> field_rd(instr)]

\* Emulator::write_reg that stores x0 too (into the slot of x1)
write_reg_unguarded(r, reg, val) == [r EXCEPT ![IF reg = 0 THEN 1 ELSE reg] = val]

\* write_reg indexing regs[reg] instead of regs[reg - 1]
write_reg_shifted(r, reg, val) ==
    IF reg # 0 THEN [r EXCEPT ![IF reg = 31 THEN 31 ELSE reg + 1] = val] ELSE r

\* Emulator::write_reg, Emulator::read_reg on the register file r: [1..31 -> u32]
write_reg(r, reg, val) == IF reg # 0 THEN [r EXCEPT ![reg] = val] ELSE r

read_reg(r, reg) == IF reg # 0 THEN r[reg] ELSE Zero

---------------------------------------------------------------------------
(* emulator.rs: Emulator::run.  One iteration of the 'next_instruction loop  *)
(* on the memory m, the register file r and the local pc p gives            *)
(* [exit, m, regs, pc]: exit.kind = "none" when the loop goes on, else the  *)
(* EmulatorExit returned (pc is then what run stores in self.pc), or a      *)
(* Panic that ends the process.                                             *)

Syscall == [kind |-> "Syscall"]

Break == [kind |-> "Break"]

InvalidInstruction(instr) == [kind |-> "InvalidInstruction", instr |-> instr]

InvalidMemoryAccess(err) == [kind |-> "InvalidMemoryAccess", err |-> err]

\* `continue 'next_instruction` with the new pc
Continue(m, r, p) == [exit |-> [kind |-> "none"], m |-> m, regs |-> r, pc |-> p]

\* exit! after the pc was advanced
Exit_advanced(e, m, r, p) == [exit |-> e, m |-> m, regs |-> r, pc |-> WrappingAdd(p, Lit(4))]

\* exit!(e), or a panic e
Exit(e, m, r, p) == [exit |-> e, m |-> m, regs |-> r, pc |-> p]

\* the end of the loop body: pc = pc + 4
NextInstruction(m, r, p) ==
    IF AddPanics(p, Lit(4))
    THEN Exit(Panic("attempt to add with overflow"), m, r, p)
    ELSE Continue(m, r, WrappingAdd(p, Lit(4)))

\* what a memory error of a load or store does to the loop
MemoryFault(err, m, r, p) ==
    IF err.kind = "Panic" THEN Exit(err, m, r, p) ELSE Exit(InvalidMemoryAccess(err), m, r, p)

\* the opcodes run matches on
OPC_LUI == 55
OPC_AUIPC == 23
OPC_JAL == 111
OPC_JALR == 103
OPC_BRANCH == 99
OPC_LOAD == 3
OPC_STORE == 35
OPC_OP_IMM == 19
OPC_OP == 51
OPC_MISC_MEM == 15
OPC_SYSTEM == 115

\* Each Exec operator is one arm of the match; typ is the parsed instruction.
ExecLUI(m, r, p, typ) == NextInstruction(m, write_reg(r, typ.rd, typ.imm), p)

ExecAUIPC(m, r, p, typ) ==
    IF AddPanics(p, typ.imm)
    THEN Exit(Panic("attempt to add with overflow"), m, r, p)
    ELSE NextInstruction(m, write_reg(r, typ.rd, WrappingAdd(p, typ.imm)), p)

\* the link of JAL and JALR: write_reg(rd, old_pc + 4) after pc was assigned
Link(m, r, old_pc, rd, target) ==
    IF AddPanics(old_pc, Lit(4))
    THEN Exit(Panic("attempt to add with overflow"), m, r, target)
    ELSE Continue(m, write_reg(r, rd, WrappingAdd(old_pc, Lit(4))), target)

ExecJAL(m, r, p, typ) == Link(m, r, p, typ.rd, WrappingAdd(p, typ.imm))

\* ExecJALR that links before it reads rs1
ExecJALR_link_first(m, r, p, instr, typ) ==
    IF typ.funct3 # 0
    THEN Exit(InvalidInstruction(instr), m, r, p)
    ELSE Link(m, r, p, typ.rd,
              WrappingAdd(read_reg(write_reg(r, typ.rd, WrappingAdd(p, Lit(4))), typ.rs1),
                          typ.imm))

ExecJALR(m, r, p, instr, typ) ==
    IF typ.funct3 # 0
    THEN Exit(InvalidInstruction(instr), m, r, p)
    ELSE Link(m, r, p, typ.rd, WrappingAdd(read_reg(r, typ.rs1), typ.imm))

\* take_branch of the values a = rs1, b = rs2
take_branch(funct3, a, b) ==
    CASE funct3 = 0 -> a = b
      [] funct3 = 1 -> a # b
      [] funct3 = 4 -> LtSigned(a, b)
      [] funct3 = 5 -> ~LtSigned(a, b)
      [] funct3 = 6 -> Lt32(a, b)
      [] funct3 = 7 -> Ge32(a, b)

\* ExecBRANCH whose BGEU arm adds the immediate to pc twice
ExecBRANCH_bgeu_twice(m, r, p, instr, typ) ==
    IF typ.funct3 \notin {0, 1, 4, 5, 6, 7}
    THEN Exit(InvalidInstruction(instr), m, r, p)
    ELSE IF take_branch(typ.funct3, read_reg(r, typ.rs1), read_reg(r, typ.rs2))
    THEN Continue(m, r, WrappingAdd(IF typ.funct3 = 7 THEN WrappingAdd(p, typ.imm) ELSE p,
                                    typ.imm))
    ELSE NextInstruction(m, r, p)

ExecBRANCH(m, r, p, instr, typ) ==
    IF typ.funct3 \notin {0, 1, 4, 5, 6, 7}
    THEN Exit(InvalidInstruction(instr), m, r, p)
    ELSE IF take_branch(typ.funct3, read_reg(r, typ.rs1), read_reg(r, typ.rs2))
    THEN Continue(m, r, WrappingAdd(p, typ.imm))
    ELSE NextInstruction(m, r, p)

\* the read a LOAD makes
LoadData(m, funct3, addr) ==
    CASE funct3 = 0 -> read_i8(m, addr, PERM_READ)
      [] funct3 = 1 -> read_i16(m, addr, PERM_READ)
      [] funct3 = 2 -> read_u32(m, addr, PERM_READ)
      [] funct3 = 4 -> read_u8(m, addr, PERM_READ)
      [] funct3 = 5 -> read_u16(m, addr, PERM_READ)

\* LoadDone writing rd before it looks at the result of the read
LoadDone_written(m, r, p, rd, data) ==
    IF data.res.kind # "Ok"
    THEN MemoryFault(data.res, m, write_reg(r, rd, Not32(Zero)), p)
    ELSE NextInstruction(m, write_reg(r, rd, data.val), p)

\* match data { Err(memerr) => exit, Ok(data) => write_reg }
LoadDone(m, r, p, rd, data) ==
    IF data.res.kind # "Ok"
    THEN MemoryFault(data.res, m, r, p)
    ELSE NextInstruction(m, write_reg(r, rd, data.val), p)

ExecLOAD(m, r, p, instr, typ) ==
    IF typ.funct3 \notin {0, 1, 2, 4, 5}
    THEN Exit(InvalidInstruction(instr), m, r, p)
    ELSE LoadDone(m, r, p, typ.rd,
                  LoadData(m, typ.funct3, WrappingAdd(read_reg(r, typ.rs1), typ.imm)))

\* the write a STORE makes
StoreData(m, funct3, addr, data) ==
    CASE funct3 = 0 -> write_u8(m, addr, PERM_WRITE, AsU8(data))
      [] funct3 = 1 -> write_u16(m, addr, PERM_WRITE, AsU16(data))
      [] funct3 = 2 -> write_u32(m, addr, PERM_WRITE, data)

\* match res { Err(memerr) => exit, Ok(()) => () }
StoreDone(m, r, p, res) ==
    IF res.res.kind # "Ok"
    THEN MemoryFault(res.res, m, r, p)
    ELSE NextInstruction(res.m, r, p)

ExecSTORE(m, r, p, instr, typ) ==
    IF AddPanics(read_reg(r, typ.rs1), typ.imm)
    THEN Exit(Panic("attempt to add with overflow"), m, r, p)
    ELSE IF typ.funct3 \notin {0, 1, 2}
    THEN Exit(InvalidInstruction(instr), m, r, p)
    ELSE StoreDone(m, r, p,
                   StoreData(m, typ.funct3, WrappingAdd(read_reg(r, typ.rs1), typ.imm),
                             read_reg(r, typ.rs2)))

\* 1 or 0 as the register value of a comparison
Flag(b) == IF b THEN Lit(1) ELSE Lit(0)

\* what an arm of OP-IMM or OP computes: the data for rd, or an invalid instruction
Data(v) == [valid |-> TRUE, data |-> v]

Invalid == [valid |-> FALSE, data |-> Zero]

\* the write_reg(typ.rd, data) of the arm, or its exit!
WriteBack(m, r, p, instr, rd, v) ==
    IF v.valid
    THEN NextInstruction(m, write_reg(r, rd, v.data), p)
    ELSE Exit(InvalidInstruction(instr), m, r, p)

\* the arms of OP-IMM: arithmetic = imm[11:5], shamt = imm[4:0]
OpImm(funct3, rs1, imm, arithmetic, shamt) ==
    CASE funct3 = 0 -> Data(WrappingAdd(rs1, imm))
      [] funct3 = 2 -> Data(Flag(LtSigned(rs1, imm)))
      [] funct3 = 3 -> Data(Flag(Lt32(rs1, imm)))
      [] funct3 = 4 -> Data(Xor32(rs1, imm))
      [] funct3 = 6 -> Data(Or32(rs1, imm))
      [] funct3 = 7 -> Data(And32(rs1, imm))
      [] funct3 = 1 -> IF arithmetic # 0 THEN Invalid ELSE Data(Shl32(rs1, shamt))
      [] funct3 = 5 ->
            IF arithmetic = 0 THEN Data(Shr32(rs1, shamt))
            ELSE IF arithmetic = 32 THEN Data(Sar32(rs1, shamt))
            ELSE Invalid
      [] OTHER -> Invalid

ExecOP_IMM(m, r, p, instr, typ) ==
    WriteBack(m, r, p, instr, typ.rd,
              OpImm(typ.funct3, read_reg(r, typ.rs1), typ.imm,
                    Lo(Shr32(And32(typ.imm, LowMask(12)), 5)),
                    Lo(And32(typ.imm, Lit(31)))))

\* Op whose SLT arm compares the operands as unsigned
Op_slt_unsigned(f, rs1, rs2, shamt) ==
    CASE f = <<0, 0>>  -> Data(WrappingAdd(rs1, rs2))
      [] f = <<0, 32>> -> Data(WrappingSub(rs1, rs2))
      [] f = <<1, 0>>  -> Data(Shl32(rs1, shamt))
      [] f = <<2, 0>>  -> Data(Flag(Lt32(rs1, rs2)))
      [] f = <<3, 0>>  -> Data(Flag(Lt32(rs1, rs2)))
      [] f = <<4, 0>>  -> Data(Xor32(rs1, rs2))
      [] f = <<5, 0>>  -> Data(Shr32(rs1, shamt))
      [] f = <<5, 32>> -> Data(Sar32(rs1, shamt))
      [] f = <<6, 0>>  -> Data(Or32(rs1, rs2))
      [] f = <<7, 0>>  -> Data(And32(rs1, rs2))
      [] OTHER -> Invalid

\* the arms of OP on f = (funct3, funct7): shamt = rs2 & 0b11111
Op(f, rs1, rs2, shamt) ==
    CASE f = <<0, 0>>  -> Data(WrappingAdd(rs1, rs2))
      [] f = <<0, 32>> -> Data(WrappingSub(rs1, rs2))
      [] f = <<1, 0>>  -> Data(Shl32(rs1, shamt))
      [] f = <<2, 0>>  -> Data(Flag(LtSigned(rs1, rs2)))
      [] f = <<3, 0>>  -> Data(Flag(Lt32(rs1, rs2)))
      [] f = <<4, 0>>  -> Data(Xor32(rs1, rs2))
      [] f = <<5, 0>>  -> Data(Shr32(rs1, shamt))
      [] f = <<5, 32>> -> Data(Sar32(rs1, shamt))
      [] f = <<6, 0>>  -> Data(Or32(rs1, rs2))
      [] f = <<7, 0>>  -> Data(And32(rs1, rs2))
      [] OTHER -> Invalid

ExecOP(m, r, p, instr, typ) ==
    WriteBack(m, r, p, instr, typ.rd,
              Op(<<typ.funct3, typ.funct7>>, read_reg(r, typ.rs1), read_reg(r, typ.rs2),
                 Lo(And32(read_reg(r, typ.rs2), Lit(31)))))

ExecMISC_MEM(m, r, p, instr, typ) ==
    IF typ.funct3 # 0
    THEN Exit(InvalidInstruction(instr), m, r, p)
    ELSE NextInstruction(m, r, p)

ExecSYSTEM(m, r, p, instr, typ) ==
    IF typ.rs1 # 0 \/ typ.rd # 0 \/ typ.funct3 # 0
    THEN Exit(InvalidInstruction(instr), m, r, p)
    ELSE IF typ.imm = Lit(0) THEN Exit(Syscall, m, r, p)
    ELSE IF typ.imm = Lit(1) THEN Exit(Break, m, r, p)
    ELSE Exit(InvalidInstruction(instr), m, r, p)

\* ABI register numbers (RegName::Sp, RegName::A0, RegName::A2 as the table of abi_name orders them)
RegName_Sp == 2

RegName_A0 == 10

RegName_A2 == 12

\* the pc at which run prints A2 - A0
BzeroPc == Mk(1, 236)

\* the match on the opcode, the first 7 bits of the instruction
Match(m, r, p, instr, opcode) ==
    CASE opcode = OPC_LUI      -> ExecLUI(m, r, p, UType_parse(instr))
      [] opcode = OPC_AUIPC    -> ExecAUIPC(m, r, p, UType_parse(instr))
      [] opcode = OPC_JAL      -> ExecJAL(m, r, p, JType_parse(instr))
      [] opcode = OPC_JALR     -> ExecJALR(m, r, p, instr, IType_parse(instr))
      [] opcode = OPC_BRANCH   -> ExecBRANCH(m, r, p, instr, BType_parse(instr))
      [] opcode = OPC_LOAD     -> ExecLOAD(m, r, p, instr, IType_parse(instr))
      [] opcode = OPC_STORE    -> ExecSTORE(m, r, p, instr, SType_parse(instr))
      [] opcode = OPC_OP_IMM   -> ExecOP_IMM(m, r, p, instr, IType_parse(instr))
      [] opcode = OPC_OP       -> ExecOP(m, r, p, instr, RType_parse(instr))
      [] opcode = OPC_MISC_MEM -> ExecMISC_MEM(m, r, p, instr, IType_parse(instr))
      [] opcode = OPC_SYSTEM   -> ExecSYSTEM(m, r, p, instr, IType_parse(instr))
      [] OTHER                 -> Exit(InvalidInstruction(instr), m, r, p)

Execute(m, r, p, instr) == Match(m, r, p, instr, Lo(And32(instr, LowMask(7))))

\* the fetch of the instruction at the local pc
Fetch(m, p) == read_u32(m, p, PERM_EXEC)

\* the loop body after the fetch: the print at BzeroPc, then the match
Fetched(m, r, p, instr) ==
    IF instr.res.kind # "Ok"
    THEN MemoryFault(instr.res, m, r, p)
    ELSE IF p = BzeroPc /\ overflow_checks
                        /\ SubOverflows(read_reg(r, RegName_A2), read_reg(r, RegName_A0))
    THEN Exit(Panic("attempt to subtract with overflow"), m, r, p)
    ELSE Execute(m, r, p, instr.val)

\* one iteration of the run loop
RunIteration(m, r, p) == Fetched(m, r, p, Fetch(m, p))

---------------------------------------------------------------------------
(* Instruction words of the guest programs, assembled field by field as in  *)
(* the RISC-V base formats the decoders take apart.  imm is a u32 holding   *)
(* the two's complement immediate.                                          *)

\* bits hi..lo of a u32 as a u32
Bits(w, hi, lo) == Shr32(And32(w, IF hi = 31 THEN Not32(Zero) ELSE LowMask(hi + 1)), lo)

Place(v, at) == Shl32(Lit(v), at)

EncI(opcode, rd, funct3, rs1, imm) ==
    Or32(Shl32(Bits(imm, 11, 0), 20),
         Or32(Or32(Place(rs1, 15), Place(funct3, 12)), Or32(Place(rd, 7), Lit(opcode))))

EncS(opcode, funct3, rs1, rs2, imm) ==
    Or32(Or32(Shl32(Bits(imm, 11, 5), 25), Shl32(Bits(imm, 4, 0), 7)),
         Or32(Or32(Place(rs2, 20), Place(rs1, 15)), Or32(Place(funct3, 12), Lit(opcode))))

EncB(opcode, funct3, rs1, rs2, imm) ==
    Or32(Or32(Or32(Shl32(Bits(imm, 12, 12), 31), Shl32(Bits(imm, 10, 5), 25)),
              Or32(Shl32(Bits(imm, 4, 1), 8), Shl32(Bits(imm, 11, 11), 7))),
         Or32(Or32(Place(rs2, 20), Place(rs1, 15)), Or32(Place(funct3, 12), Lit(opcode))))

EncU(opcode, rd, imm) ==
    Or32(And32(imm, Not32(LowMask(12))), Or32(Place(rd, 7), Lit(opcode)))

EncJ(opcode, rd, imm) ==
    Or32(Or32(Or32(Shl32(Bits(imm, 20, 20), 31), Shl32(Bits(imm, 10, 1), 21)),
              Or32(Shl32(Bits(imm, 11, 11), 20), Shl32(Bits(imm, 19, 12), 12))),
         Or32(Place(rd, 7), Lit(opcode)))

EncR(opcode, rd, funct3, rs1, rs2, funct7) ==
    Or32(Or32(Place(funct7, 25), Place(rs2, 20)),
         Or32(Or32(Place(rs1, 15), Place(funct3, 12)), Or32(Place(rd, 7), Lit(opcode))))

\* a negative immediate -n as u32
Neg(n) == WrappingSub(Zero, Lit(n))

---------------------------------------------------------------------------
(* SpecRS: a driver of the RangeSet API on the variable `free`. *)

EmuIdle ==
    /\ overflow_checks = FALSE
    /\ elf = NoElf
    /\ pc = Zero
    /\ regs = ZeroRegs
    /\ lpc = Zero
    /\ main = NoMain
    /\ steps = 0
    /\ claimed = {}
    /\ written = << >>

RsInit ==
    /\ EmuIdle
    /\ mem = << >>
    /\ perms = << >>
    /\ phase = "rangeset"
    /\ ret = NoRet
    /\ call = NoCall
    /\ \E a \in 0..RsMax, b \in 0..RsMax :
          /\ a < b
          /\ free = RangeSet_new(a, b)

RsRemove(s, e) ==
    LET r == RangeSet_remove(free, s, e) IN
    /\ phase = "rangeset"
    /\ Len(r.ranges) <= MaxRanges
    /\ free' = r.ranges
    /\ ret' = [kind |-> r.res]
    /\ call' = [op |-> "remove", start |-> s, end |-> e]
    /\ UNCHANGED <<overflow_checks, elf, mem, perms, pc, regs, lpc, phase, main, steps, claimed, written>>

RsRemoveFirstFit(size) ==
    LET r == RangeSet_remove_first_fit(free, size) IN
    /\ phase = "rangeset"
    /\ Len(r.ranges) <= MaxRanges
    /\ free' = r.ranges
    /\ ret' = [kind |-> r.res, start |-> r.start, end |-> r.end]
    /\ call' = [op |-> "remove_first_fit", size |-> size]
    /\ UNCHANGED <<overflow_checks, elf, mem, perms, pc, regs, lpc, phase, main, steps, claimed, written>>

RsNext ==
    \/ \E s \in 0..(RsMax + 1), e \in 0..(RsMax + 1) : RsRemove(s, e)
    \/ \E size \in 0..(RsMax + 1) : RsRemoveFirstFit(size)

SpecRS == RsInit /\ [][RsNext]_vars

\* the same driver with the arguments of new(a, b) kept in main
RsInitFrom ==
    /\ overflow_checks = FALSE
    /\ elf = NoElf
    /\ pc = Zero
    /\ regs = ZeroRegs
    /\ lpc = Zero
    /\ steps = 0
    /\ claimed = {}
    /\ written = << >>
    /\ mem = << >>
    /\ perms = << >>
    /\ phase = "rangeset"
    /\ ret = NoRet
    /\ call = NoCall
    /\ \E a \in 0..RsMax, b \in 0..RsMax :
          /\ a < b
          /\ main = [start |-> a, end |-> b]
          /\ free = RangeSet_new(a, b)

SpecRSFrom == RsInitFrom /\ [][RsNext]_vars

---------------------------------------------------------------------------
(* SpecDecode: the parsers of instructions.rs applied to instruction words. *)
(* Every parser routes instruction bits to fields one by one, so the words  *)
(* are the ones that tell the routes apart: a single bit set, a single bit  *)
(* clear, a single bit next to the sign bit, no bit and every bit.          *)

DecodeWords ==
    {Zero, Not32(Zero)}
        \cup {Bit32(k) : k \in 0..31}
        \cup {Not32(Bit32(k)) : k \in 0..31}
        \cup {Or32(Bit32(31), Bit32(k)) : k \in 0..31}

DecodeInit ==
    /\ EmuIdle
    /\ mem = << >>
    /\ perms = << >>
    /\ free = << >>
    /\ phase = "decode"
    /\ ret = NoRet
    /\ call = NoCall

\* XType::parse(instr) for the parser named
Parse(parser, instr) ==
    CASE parser = "UType" -> UType_parse(instr)
      [] parser = "JType" -> JType_parse(instr)
      [] parser = "IType" -> IType_parse(instr)
      [] parser = "BType" -> BType_parse(instr)
      [] parser = "SType" -> SType_parse(instr)
      [] parser = "RType" -> RType_parse(instr)

DecodeParse(parser, instr) ==
    /\ phase = "decode"
    /\ ret' = Parse(parser, instr)
    /\ call' = [op |-> parser, instr |-> instr]
    /\ UNCHANGED <<overflow_checks, elf, mem, perms, free, pc, regs, lpc, phase, main, steps,
                   claimed, written>>

DecodeNext ==
    \E parser \in {"UType", "JType", "IType", "BType", "SType", "RType"}, instr \in DecodeWords :
        DecodeParse(parser, instr)

SpecDecode == DecodeInit /\ [][DecodeNext]_vars

---------------------------------------------------------------------------
(* SpecFit: RangeSet::new(a, b), then remove_first_fit called in a loop     *)
(* that ends at the first Err, as the rangeset test chains its calls.       *)
(* `main` keeps the arguments of new and `written` the blocks returned.     *)

FitInit ==
    /\ overflow_checks = FALSE
    /\ elf = NoElf
    /\ pc = Zero
    /\ regs = ZeroRegs
    /\ lpc = Zero
    /\ steps = 0
    /\ claimed = {}
    /\ mem = << >>
    /\ perms = << >>
    /\ phase = "firstfit"
    /\ ret = NoRet
    /\ call = NoCall
    /\ written = << >>
    /\ \E a \in 0..RsMax, b \in 0..RsMax :
          /\ a < b
          /\ main = [start |-> a, end |-> b]
          /\ free = RangeSet_new(a, b)

FitRemoveFirstFit(size) ==
    LET r == RangeSet_remove_first_fit(free, size) IN
    /\ phase = "firstfit"
    /\ ret.kind \in {"none", "Ok"}
    /\ Len(written) < MaxFits
    /\ free' = r.ranges
    /\ ret' = [kind |-> r.res, start |-> r.start, end |-> r.end]
    /\ call' = [op |-> "remove_first_fit", size |-> size]
    /\ written' = IF r.res = "Ok" THEN Append(written, <<r.start, r.end>>) ELSE written
    /\ UNCHANGED <<overflow_checks, elf, mem, perms, pc, regs, lpc, phase, main, steps, claimed>>

FitNext == \E size \in 0..(RsMax + 1) : FitRemoveFirstFit(size)

SpecFit == FitInit /\ [][FitNext]_vars

---------------------------------------------------------------------------
(* SpecAlloc: Memory::new, then any sequence of Emulator::load,             *)
(* Memory::allocate and guest stores (Memory::write_u8 with PERM_WRITE).    *)

TheMemory == [mem |-> mem, perms |-> perms, free |-> free]

SetMemory(m) ==
    /\ mem' = m.mem
    /\ perms' = m.perms
    /\ free' = m.free

\* ELF p_flags values
PF_X == 1

PF_W == 2

PF_R == 4

Seg(addr, size, flags, data) ==
    [load_address |-> addr, file_size |-> Len(data), size |-> size,
     flags |-> flags, data |-> data]

\* the Elfs of the allocation driver: one or two small segments
AllocElfs ==
    {[entry |-> Lit(a), load_segments |-> << Seg(a, sz, fl, <<19>>) >>] :
        a \in {0, 4}, sz \in {1, 4}, fl \in {PF_R + PF_X, 0}}
    \cup
    {[entry |-> Lit(0),
      load_segments |-> << Seg(0, 1, PF_R + PF_X, <<19>>), Seg(4, 2, PF_R + PF_W, <<7, 9>>) >>]}

AllocPerms == {BitOr(PERM_RAW, PERM_WRITE), PERM_NONE}

\* the sizes asked of Memory::allocate: nothing, parts, the whole memory, too much
AllocSizes == {0, 3, AllocMemSize - 3, AllocMemSize, AllocMemSize + 1}

AllocInit ==
    /\ overflow_checks \in BOOLEAN
    /\ elf = NoElf
    /\ pc = Zero
    /\ regs = ZeroRegs
    /\ lpc = Zero
    /\ main = NoMain
    /\ steps = 0
    /\ claimed = {}
    /\ written = << >>
    /\ phase = "alloc"
    /\ ret = NoRet
    /\ call = NoCall
    /\ mem = Memory_new(AllocMemSize).mem
    /\ perms = Memory_new(AllocMemSize).perms
    /\ free = Memory_new(AllocMemSize).free

AllocLoad(e) ==
    LET r == Emulator_load(TheMemory, e) IN
    /\ phase = "alloc"
    /\ elf = NoElf
    /\ elf' = e
    /\ pc' = e.entry
    /\ SetMemory(r.m)
    /\ ret' = r.res
    /\ call' = [op |-> "load"]
    /\ claimed' = claimed \cup SegmentAddrs(e.load_segments, r.done)
    /\ UNCHANGED <<overflow_checks, regs, lpc, phase, main, steps, written>>

AllocAllocate(size, perm) ==
    LET r == Memory_allocate(TheMemory, size, perm) IN
    /\ phase = "alloc"
    /\ SetMemory(r.m)
    /\ ret' = IF r.res.kind = "Ok"
              THEN [kind |-> "Ok", start |-> r.start, end |-> r.end]
              ELSE r.res
    /\ call' = [op |-> "allocate", size |-> size, perms |-> perm]
    /\ claimed' = IF r.res.kind = "Ok" THEN claimed \cup (r.start..(r.end - 1)) ELSE claimed
    /\ UNCHANGED <<overflow_checks, elf, pc, regs, lpc, phase, main, steps, written>>

AllocGuestWrite(addr, val) ==
    LET r == write_u8(TheMemory, addr, PERM_WRITE, val) IN
    /\ phase = "alloc"
    /\ SetMemory(r.m)
    /\ ret' = r.res
    /\ call' = [op |-> "write_u8", addr |-> addr]
    /\ UNCHANGED <<overflow_checks, elf, pc, regs, lpc, phase, main, steps, claimed, written>>

AllocNext ==
    \/ \E e \in AllocElfs : AllocLoad(e)
    \/ \E size \in AllocSizes, perm \in AllocPerms : AllocAllocate(size, perm)
    \/ \E a \in {0, 4} : AllocGuestWrite(Lit(a), 165)

SpecAlloc == AllocInit /\ [][AllocNext]_vars

---------------------------------------------------------------------------
(* SpecMem: Memory::new, allocations that lay out blocks of different       *)
(* permissions, then one call of the Memory API with arguments inside and   *)
(* outside the memory.                                                       *)

MemPerms ==
    {BitOr(PERM_RAW, PERM_WRITE), PERM_WRITE, BitOr(PERM_READ, PERM_WRITE)}

MemInit ==
    /\ overflow_checks \in BOOLEAN
    /\ elf = NoElf
    /\ pc = Zero
    /\ regs = ZeroRegs
    /\ lpc = Zero
    /\ main = NoMain
    /\ steps = 0
    /\ claimed = {}
    /\ written = << >>
    /\ phase = "mem"
    /\ ret = NoRet
    /\ call = NoCall
    /\ mem = Memory_new(MemSize).mem
    /\ perms = Memory_new(MemSize).perms
    /\ free = Memory_new(MemSize).free

\* the addresses handed to the API: inside, at the end, past the end, near 2^32
MemAddrs ==
    {Lit(0), Lit(1), Lit(MemSize - 2), Lit(MemSize - 1), Lit(MemSize),
     Mk(65535, 65534), Mk(65535, 65535)}

\* the Ranges handed to the API: inside, ending at the end, past the end,
\* empty, out of order, far outside
MemRanges ==
    {<<Lit(0), Lit(2)>>, <<Lit(1), Lit(MemSize - 1)>>, <<Lit(MemSize - 1), Lit(MemSize)>>,
     <<Lit(2), Lit(MemSize + 1)>>, <<Lit(MemSize), Lit(MemSize)>>, <<Lit(3), Lit(1)>>,
     <<Lit(0), Mk(1, 0)>>, <<Mk(65535, 65534), Mk(65535, 65535)>>}

MemData == {<<161>>, <<177, 178>>, <<193, 194, 195, 196>>}

\* the set-up discards what allocate returns
MemAllocate(size, perm) ==
    LET r == Memory_allocate(TheMemory, size, perm) IN
    /\ phase = "mem"
    /\ SetMemory(r.m)
    /\ claimed' = IF r.res.kind = "Ok" THEN claimed \cup (r.start..(r.end - 1)) ELSE claimed
    /\ UNCHANGED <<overflow_checks, elf, pc, regs, lpc, phase, ret, main, steps, call, written>>

Probed(m, result, c) ==
    /\ phase = "mem"
    /\ phase' = "probed"
    /\ SetMemory(m)
    /\ ret' = result
    /\ call' = c
    /\ UNCHANGED <<overflow_checks, elf, pc, regs, lpc, main, steps, claimed, written>>

ProbeRead(range, perm) ==
    LET r == Memory_read(TheMemory, range[1], range[2], perm) IN
    Probed(TheMemory,
           IF r.res.kind = "Ok" THEN [kind |-> "Ok", bytes |-> r.bytes] ELSE r.res,
           [op |-> "read", start |-> range[1], end |-> range[2], len |-> 0, perm |-> perm])

TypedRead(f, m, addr, perm) ==
    CASE f = "read_u8"  -> read_u8(m, addr, perm)
      [] f = "read_u16" -> read_u16(m, addr, perm)
      [] f = "read_u32" -> read_u32(m, addr, perm)
      [] f = "read_i8"  -> read_i8(m, addr, perm)
      [] f = "read_i16" -> read_i16(m, addr, perm)

TypedSize(f) ==
    CASE f \in {"read_u8", "read_i8", "write_u8"} -> 1
      [] f \in {"read_u16", "read_i16", "write_u16"} -> 2
      [] f \in {"read_u32", "write_u32"} -> 4

ProbeTypedRead(f, addr, perm) ==
    LET r == TypedRead(f, TheMemory, addr, perm) IN
    Probed(TheMemory,
           IF r.res.kind = "Ok" THEN [kind |-> "Ok", val |-> r.val] ELSE r.res,
           [op |-> f, start |-> addr, len |-> TypedSize(f), perm |-> perm])

ProbeWrite(addr, perm, data) ==
    LET r == Memory_write(TheMemory, addr, perm, data) IN
    Probed(r.m, r.res,
           [op |-> "write", start |-> addr, len |-> Len(data), perm |-> perm])

TypedWrite(f, m, addr, perm) ==
    CASE f = "write_u8"  -> write_u8(m, addr, perm, 165)
      [] f = "write_u16" -> write_u16(m, addr, perm, 42405)
      [] f = "write_u32" -> write_u32(m, addr, perm, Mk(4660, 42405))

ProbeTypedWrite(f, addr, perm) ==
    LET r == TypedWrite(f, TheMemory, addr, perm) IN
    Probed(r.m, r.res,
           [op |-> f, start |-> addr, len |-> TypedSize(f), perm |-> perm])

ProbeSetPermissions(range, perm) ==
    LET r == set_permissions(TheMemory, range[1], range[2], perm) IN
    Probed(r.m, r.res,
           [op |-> "set_permissions", start |-> range[1], end |-> range[2], len |-> 0,
            perm |-> perm])

MemNext ==
    \/ \E size \in {2, 3}, perm \in MemPerms : MemAllocate(size, perm)
    \/ \E range \in MemRanges, perm \in {PERM_NONE, PERM_READ} : ProbeRead(range, perm)
    \/ \E f \in {"read_u8", "read_u16", "read_u32", "read_i8", "read_i16"},
          addr \in MemAddrs, perm \in {PERM_READ, PERM_WRITE} : ProbeTypedRead(f, addr, perm)
    \/ \E addr \in MemAddrs, perm \in {PERM_NONE, PERM_WRITE}, data \in MemData :
          ProbeWrite(addr, perm, data)
    \/ \E f \in {"write_u8", "write_u16", "write_u32"}, addr \in MemAddrs :
          ProbeTypedWrite(f, addr, PERM_WRITE)
    \/ \E range \in MemRanges, perm \in {PERM_EXEC, PERM_NONE} : ProbeSetPermissions(range, perm)

SpecMem == MemInit /\ [][MemNext]_vars

---------------------------------------------------------------------------
(* Spec: the emulator process of main.rs.  Emulator::new, load of the Elf,  *)
(* the stack, the initial-stack pushes, the heap, then the loop of run and  *)
(* the syscalls.  The sizes of main are scaled down to words.               *)

\* main: Emulator::new(25*1024*1024), stack_size, heap_size
memory_size == 4 * MemoryWords

stack_size == 4 * StackWords

heap_size == 4 * HeapWords

\* record in the history w that bytes were written from address a on
Wrote(w, a, bytes) ==
    [x \in DOMAIN w \cup (a..(a + Len(bytes) - 1)) |->
        IF x >= a /\ x < a + Len(bytes) THEN bytes[x - a + 1] ELSE w[x]]

\* forget the history of a block that is allocated anew
Forget(w, addrs) == [x \in DOMAIN w \ addrs |-> w[x]]

\* the process dies: a panic of main or of the library
Dies(msg) ==
    /\ phase' = "panicked"
    /\ ret' = Panic(msg)

\* emu.load(&elf).unwrap()
Load ==
    LET r == Emulator_load(TheMemory, elf) IN
    /\ phase = "new"
    /\ pc' = elf.entry
    /\ SetMemory(r.m)
    /\ claimed' = claimed \cup SegmentAddrs(elf.load_segments, r.done)
    /\ IF r.res.kind = "Ok"
       THEN phase' = "loaded" /\ ret' = r.res
       ELSE Dies("unwrap on an Err value")
    /\ UNCHANGED <<overflow_checks, elf, regs, lpc, main, steps, call, written>>

\* let (stack_start, stack_end) = emu.mem.allocate(stack_size, PERM_RAW | PERM_WRITE).unwrap()
AllocStack ==
    LET r == Memory_allocate(TheMemory, stack_size, BitOr(PERM_RAW, PERM_WRITE)) IN
    /\ phase = "loaded"
    /\ SetMemory(r.m)
    /\ IF r.res.kind = "Ok"
       THEN /\ phase' = "stack"
            /\ ret' = r.res
            /\ main' = [stack_start |-> Lit(r.start), stack_end |-> Lit(r.end),
                        sp |-> Lit(r.end)]
            /\ claimed' = claimed \cup (r.start..(r.end - 1))
            /\ written' = Forget(written, r.start..(r.end - 1))
       ELSE /\ Dies("unwrap on an Err value")
            /\ UNCHANGED <<main, claimed, written>>
    /\ UNCHANGED <<overflow_checks, elf, pc, regs, lpc, steps, call>>

\* push! that keeps sp a multiple of the word size
push_aligned(st, val) ==
    IF ~st.ok THEN st
    ELSE IF overflow_checks /\ SubOverflows(st.sp, Lit(4 * ((Len(val) + 3) \div 4)))
    THEN [st EXCEPT !.ok = FALSE]
    ELSE LET sp == WrappingSub(st.sp, Lit(4 * ((Len(val) + 3) \div 4)))
             w  == Memory_write(st.m, sp, PERM_WRITE, val)
         IN  IF w.res.kind # "Ok"
             THEN [ok |-> FALSE, m |-> w.m, sp |-> sp, w |-> st.w]
             ELSE [ok |-> TRUE, m |-> w.m, sp |-> sp, w |-> Wrote(st.w, Lo(sp), val)]

\* the push! macro on [ok, m, sp, w]: sp -= val.len(); write(sp, PERM_WRITE, val).unwrap()
push(st, val) ==
    IF ~st.ok THEN st
    ELSE IF overflow_checks /\ SubOverflows(st.sp, Lit(Len(val)))
    THEN [st EXCEPT !.ok = FALSE]
    ELSE LET sp == WrappingSub(st.sp, Lit(Len(val)))
             w  == Memory_write(st.m, sp, PERM_WRITE, val)
         IN  IF w.res.kind # "Ok"
             THEN [ok |-> FALSE, m |-> w.m, sp |-> sp, w |-> st.w]
             ELSE [ok |-> TRUE, m |-> w.m, sp |-> sp, w |-> Wrote(st.w, Lo(sp), val)]

\* the bytes of the literal test\0
progname_bytes == <<116, 101, 115, 116, 0>>

\* the pushes of the words vals[i..] in turn
RECURSIVE push_words(_, _, _)
push_words(st, vals, i) ==
    IF i > Len(vals) THEN st
    ELSE push_words(push(st, to_le_bytes_u32(vals[i])), vals, i + 1)

\* main: the pushes of progname, auxv, envp and argv terminators, argv, argc,
\* then emu.write_reg(RegName::Sp.as_reg(), sp)
PushArgs ==
    LET progname == push([ok |-> TRUE, m |-> TheMemory, sp |-> main.sp, w |-> written],
                         progname_bytes)
        last == push_words(progname,
                           <<Lit(0), Lit(0), Lit(0), Lit(0), progname.sp, Lit(1)>>, 1)
    IN  /\ phase = "stack"
        /\ SetMemory(last.m)
        /\ written' = last.w
        /\ main' = [main EXCEPT !.sp = last.sp]
        /\ IF last.ok
           THEN /\ phase' = "pushed"
                /\ ret' = Ok
                /\ regs' = write_reg(regs, RegName_Sp, last.sp)
           ELSE /\ Dies("push! failed")
                /\ regs' = regs
        /\ UNCHANGED <<overflow_checks, elf, pc, lpc, steps, claimed, call>>

\* let (heap_start, heap_end) = emu.mem.allocate(heap_size, PERM_RAW | PERM_WRITE).unwrap();
\* current_brk = heap_start; the first call of run copies self.pc into its local pc
AllocHeap ==
    LET r == Memory_allocate(TheMemory, heap_size, BitOr(PERM_RAW, PERM_WRITE)) IN
    /\ phase = "pushed"
    /\ SetMemory(r.m)
    /\ IF r.res.kind = "Ok"
       THEN /\ phase' = "run"
            /\ ret' = r.res
            /\ main' = [stack_start |-> main.stack_start, stack_end |-> main.stack_end,
                        sp |-> main.sp,
                        heap_start |-> Lit(r.start), heap_end |-> Lit(r.end),
                        current_brk |-> Lit(r.start)]
            /\ claimed' = claimed \cup (r.start..(r.end - 1))
            /\ written' = Forget(written, r.start..(r.end - 1))
            /\ lpc' = pc
       ELSE /\ Dies("unwrap on an Err value")
            /\ UNCHANGED <<main, claimed, written, lpc>>
    /\ UNCHANGED <<overflow_checks, elf, pc, regs, steps, call>>

\* the bytes a successful STORE of the instruction wrote, and where: [done, addr, bytes]
StoreBytes(funct3, data) ==
    CASE funct3 = 0 -> to_le_bytes_u8(AsU8(data))
      [] funct3 = 1 -> to_le_bytes_u16(AsU16(data))
      [] OTHER      -> to_le_bytes_u32(data)

StoreOf(m, r, instr, typ) ==
    [done  |-> /\ Lo(And32(instr, LowMask(7))) = OPC_STORE
               /\ typ.funct3 \in {0, 1, 2}
               /\ ~AddPanics(read_reg(r, typ.rs1), typ.imm)
               /\ StoreData(m, typ.funct3, WrappingAdd(read_reg(r, typ.rs1), typ.imm),
                            read_reg(r, typ.rs2)).res.kind = "Ok",
     addr  |-> Lo(WrappingAdd(read_reg(r, typ.rs1), typ.imm)),
     bytes |-> StoreBytes(typ.funct3, read_reg(r, typ.rs2))]

\* the history after an iteration on m and r that fetched f
WrittenAfter(w, m, r, f) ==
    IF f.res.kind # "Ok" THEN w
    ELSE LET st == StoreOf(m, r, f.val, SType_parse(f.val)) IN
         IF st.done THEN Wrote(w, st.addr, st.bytes) ELSE w

\* the effect of the iteration it of the loop whose fetch gave f
Stepped(it, f) ==
    /\ SetMemory(it.m)
    /\ regs' = it.regs
    /\ call' = [op |-> "step", pc |-> lpc, fetched |-> f.res.kind = "Ok", instr |-> f.val]
    /\ written' = WrittenAfter(written, TheMemory, regs, f)
    /\ CASE it.exit.kind = "none" ->
              /\ lpc' = it.pc
              /\ UNCHANGED <<pc, phase, ret>>
         [] it.exit.kind = "Panic" ->
              /\ phase' = "panicked"
              /\ ret' = it.exit
              /\ UNCHANGED <<pc, lpc>>
         [] OTHER ->
              /\ phase' = "exited"
              /\ ret' = it.exit
              /\ pc' = it.pc
              /\ lpc' = it.pc

\* one iteration of the loop of run; an exit stores the local pc in self.pc
\* and returns to main, a panic ends the process
Step ==
    /\ phase = "run"
    /\ steps < MaxSteps
    /\ steps' = steps + 1
    /\ Stepped(RunIteration(TheMemory, regs, lpc), Fetch(TheMemory, lpc))
    /\ UNCHANGED <<overflow_checks, elf, main, claimed>>

\* write returning -1 for the other file descriptors
sys_write_minus_one(m, r) ==
    LET fd == read_reg(r, 10)
        buf == read_reg(r, 11)
        count == read_reg(r, 12)
        rd == Memory_read(m, buf, WrappingAdd(buf, count), PERM_READ)
    IN  IF fd = Lit(1) \/ fd = Lit(2)
        THEN IF AddPanics(buf, count) THEN [ok |-> FALSE, val |-> Zero]
             ELSE IF rd.res.kind # "Ok" THEN [ok |-> FALSE, val |-> Zero]
             ELSE [ok |-> TRUE, val |-> Lit(0)]
        ELSE [ok |-> TRUE, val |-> Not32(Lit(0))]

\* brk refusing heap_end itself
sys_brk_inclusive(r, heap_end, current_brk) ==
    LET new_brk == read_reg(r, 10) IN
    IF new_brk = Lit(0) THEN current_brk
    ELSE IF ~Lt32(new_brk, heap_end) THEN current_brk
    ELSE new_brk

\* the syscall of main: [ok, val, m, brk, w]; ok = FALSE is a panic
\* long sys_write(unsigned int fd, const char __user *buf, size_t count)
sys_write(m, r) ==
    LET fd == read_reg(r, 10)
        buf == read_reg(r, 11)
        count == read_reg(r, 12)
        rd == Memory_read(m, buf, WrappingAdd(buf, count), PERM_READ)
    IN  IF fd = Lit(1) \/ fd = Lit(2)
        THEN IF AddPanics(buf, count) THEN [ok |-> FALSE, val |-> Zero]
             ELSE IF rd.res.kind # "Ok" THEN [ok |-> FALSE, val |-> Zero]
             ELSE [ok |-> TRUE, val |-> Lit(0)]
        ELSE [ok |-> TRUE, val |-> Not32(Lit(1))]

\* the 128 zero bytes of the kernel stat struct
stat_bytes == [i \in 1..128 |-> 0]

\* brk: the new value of current_brk
sys_brk(r, heap_end, current_brk) ==
    LET new_brk == read_reg(r, 10) IN
    IF new_brk = Lit(0) THEN current_brk
    ELSE IF Lt32(heap_end, new_brk) THEN current_brk
    ELSE new_brk

\* main: the match on what run returned
Dispatch ==
    LET syscall_no == read_reg(regs, 17)
        buf == read_reg(regs, 11)
        wr == sys_write(TheMemory, regs)
        st == Memory_write(TheMemory, buf, PERM_WRITE, stat_bytes)
        brk == sys_brk(regs, main.heap_end, main.current_brk)
        Return(val) ==
            IF AddPanics(pc, Lit(4))
            THEN /\ Dies("attempt to add with overflow")
                 /\ regs' = write_reg(regs, 10, val)
                 /\ UNCHANGED <<pc, lpc>>
            ELSE /\ phase' = "run"
                 /\ ret' = [kind |-> "SyscallReturn", val |-> val]
                 /\ regs' = write_reg(regs, 10, val)
                 /\ pc' = WrappingAdd(pc, Lit(4))
                 /\ lpc' = WrappingAdd(pc, Lit(4))
        Abort(msg) == Dies(msg) /\ UNCHANGED <<regs, pc, lpc>>
    IN  /\ phase = "exited"
        /\ call' = [op |-> "dispatch", exit |-> ret.kind, no |-> syscall_no, pc |-> pc]
        /\ CASE ret.kind = "Syscall" /\ syscall_no = Lit(57) ->
                  /\ Return(Lit(0))
                  /\ UNCHANGED <<mem, perms, free, main, written>>
             [] ret.kind = "Syscall" /\ syscall_no = Lit(64) ->
                  /\ IF wr.ok THEN Return(wr.val) ELSE Abort("write: read of the buffer failed")
                  /\ UNCHANGED <<mem, perms, free, main, written>>
             [] ret.kind = "Syscall" /\ syscall_no = Lit(80) ->
                  /\ SetMemory(st.m)
                  /\ IF st.res.kind = "Ok"
                     THEN /\ Return(Lit(0))
                          /\ written' = Wrote(written, Lo(buf), stat_bytes)
                     ELSE /\ Abort("unwrap on an Err value")
                          /\ written' = written
                  /\ UNCHANGED main
             [] ret.kind = "Syscall" /\ syscall_no = Lit(93) ->
                  /\ phase' = "done"
                  /\ ret' = [kind |-> "Exit", code |-> read_reg(regs, 10), status |-> Zero]
                  /\ UNCHANGED <<mem, perms, free, main, written, regs, pc, lpc>>
             [] ret.kind = "Syscall" /\ syscall_no = Lit(214) ->
                  /\ main' = [main EXCEPT !.current_brk = brk]
                  /\ Return(brk)
                  /\ UNCHANGED <<mem, perms, free, written>>
             [] ret.kind = "Syscall" /\ syscall_no \notin {Lit(57), Lit(64), Lit(80), Lit(93), Lit(214)} ->
                  /\ Abort("Unhandled syscall no")
                  /\ UNCHANGED <<mem, perms, free, main, written>>
             [] ret.kind = "Break" ->
                  /\ Abort("Unhandled break")
                  /\ UNCHANGED <<mem, perms, free, main, written>>
             [] ret.kind = "InvalidInstruction" ->
                  /\ Abort("Invalid instruction")
                  /\ UNCHANGED <<mem, perms, free, main, written>>
             [] ret.kind = "InvalidMemoryAccess" ->
                  /\ Abort("Invalid memory access")
                  /\ UNCHANGED <<mem, perms, free, main, written>>
        /\ UNCHANGED <<overflow_checks, elf, steps, claimed>>

\* where the blocks of the process lie when the code is loaded at 0
CodeSize == 4 * ProgLen

CodeEnd == ((CodeSize + 4) \div 4) * 4

HeapBase == CodeEnd + stack_size

\* the instructions the guest programs are made of
LW(rd, rs1, imm) == EncI(OPC_LOAD, rd, 2, rs1, imm)

SW(rs2, rs1, imm) == EncS(OPC_STORE, 2, rs1, rs2, imm)

SB(rs2, rs1, imm) == EncS(OPC_STORE, 0, rs1, rs2, imm)

ADDI(rd, rs1, imm) == EncI(OPC_OP_IMM, rd, 0, rs1, imm)

JALR(rd, rs1, imm) == EncI(OPC_JALR, rd, 0, rs1, imm)

ECALL == EncI(OPC_SYSTEM, 0, 0, 0, Lit(0))

\* the programs of Spec: stores into the heap, every kind of load from it,
\* jumps out of the code, syscalls
Pool ==
    { SW(RegName_Sp, 0, Lit(HeapBase)),           \* the heap's first word := sp
      SB(RegName_Sp, 0, Lit(HeapBase + 1)),       \* its second byte := sp as u8
      LW(6, 0, Lit(HeapBase)),                    \* lw of the heap's first word
      EncI(OPC_LOAD, 7, 0, 0, Lit(HeapBase + 1)), \* lb of its second byte
      EncI(OPC_LOAD, 7, 1, 0, Lit(HeapBase)),     \* lh of its first half
      EncI(OPC_LOAD, 7, 4, 0, Lit(HeapBase + 1)), \* lbu of its second byte
      EncI(OPC_LOAD, 7, 5, 0, Lit(HeapBase + 2)), \* lhu of its second half
      JALR(0, 0, Neg(4)),                         \* jump to 0xfffffffc
      JALR(1, 0, Lit(HeapBase)),                  \* jump into the heap
      ADDI(17, 0, Lit(57)),                       \* a7 := close
      ECALL }

\* the programs of SpecX0: every kind of instruction that has an rd, with rd = x0
PoolX0 ==
    { EncU(OPC_LUI, 0, Mk(4660, 20480)),
      EncU(OPC_AUIPC, 0, Mk(4660, 20480)),
      EncJ(OPC_JAL, 0, Lit(4)),
      JALR(0, 0, Lit(4)),
      LW(0, RegName_Sp, Lit(0)),
      ADDI(0, RegName_Sp, Lit(1)),
      EncR(OPC_OP, 0, 0, RegName_Sp, RegName_Sp, 0),
      ADDI(5, RegName_Sp, Lit(1)) }

RECURSIVE Code(_)
Code(instrs) ==
    IF instrs = << >> THEN << >> ELSE to_le_bytes_u32(Head(instrs)) \o Code(Tail(instrs))

\* Elfs of one segment at 0 holding ProgLen instructions of the pool
Elfs(pool, flags) ==
    {[entry |-> Lit(0), load_segments |-> << Seg(0, CodeSize, fl, Code(prog)) >>] :
        prog \in [1..ProgLen -> pool], fl \in flags}

\* let mut emu = Emulator::new(25*1024*1024), and the Elf that Elf::load returned
ProcInit(pool, flags) ==
    /\ overflow_checks \in BOOLEAN
    /\ elf \in Elfs(pool, flags)
    /\ pc = Zero
    /\ regs = ZeroRegs
    /\ lpc = Zero
    /\ main = NoMain
    /\ steps = 0
    /\ claimed = {}
    /\ written = << >>
    /\ phase = "new"
    /\ ret = NoRet
    /\ call = NoCall
    /\ mem = Memory_new(memory_size).mem
    /\ perms = Memory_new(memory_size).perms
    /\ free = Memory_new(memory_size).free

\* programs whose segment is executable (R|X) or is not (R|W)
Init == ProcInit(Pool, {PF_R + PF_X, PF_R + PF_W})

InitX0 == ProcInit(PoolX0, {PF_R + PF_X})

Next ==
    \/ Load
    \/ AllocStack
    \/ PushArgs
    \/ AllocHeap
    \/ Step
    \/ Dispatch

Spec == Init /\ [][Next]_vars

SpecX0 == InitX0 /\ [][Next]_vars

---------------------------------------------------------------------------
(* SpecSys: the loop of main around run for a guest that is about to make a *)
(* syscall.  The process is set up as main sets it up (load, stack, pushes, *)
(* heap) with a heap of SysHeapSize bytes, large enough for the 128 bytes   *)
(* of fstat; the code is ECALL, one more instruction, ECALL, and a7, a0,    *)
(* a1, a2 hold what the guest's earlier instructions left there.            *)

\* the code of the guest: the ECALL at the entry, then second, then an ECALL
SysCode(second) == Code(<<ECALL, second, ECALL>>)

SysElf(second) ==
    [entry |-> Lit(0),
     load_segments |-> << Seg(0, Len(SysCode(second)), PF_R + PF_X, SysCode(second)) >>]

\* where main's blocks lie: the stack after the code, then the heap
SysHeapBase == segment_mem_end(SysElf(ECALL).load_segments[1]) + stack_size

SysHeapEnd == SysHeapBase + SysHeapSize

SysMemorySize == SysHeapEnd + 4

\* the instruction after the first ECALL: another ECALL, EBREAK, a word of
\* no instruction, a load outside the memory, a store into the code, a store
\* of a7 across the end of the heap, one into the free bytes after it, a jump
\* into the heap, a0 := 0
SysSecond ==
    { ECALL,
      EncI(OPC_SYSTEM, 0, 0, 0, Lit(1)),
      Zero,
      LW(5, 0, Lit(SysMemorySize)),
      SW(0, 0, Lit(0)),
      SW(17, 0, Lit(SysHeapEnd - 2)),
      SW(17, 0, Lit(SysHeapEnd)),
      JALR(0, 0, Lit(SysHeapBase)),
      ADDI(10, 0, Lit(0)) }

\* syscall numbers: close, write, fstat, exit, brk, and getpid which main
\* does not handle
SysNumbers == {57, 64, 80, 93, 214, 172}

\* a0: fd 0..3 and small break values, inside the heap, its end, past it,
\* and 0x11000
SysArg0 == {Lit(0), Lit(1), Lit(2), Lit(3), Lit(SysHeapBase + 4), Lit(SysHeapEnd),
            Lit(SysHeapEnd + 1), Mk(1, 4096)}

\* a1: the code (readable), the heap (RAW), late in the heap, the top of the
\* address space
SysArg1 == {Lit(0), Lit(SysHeapBase), Lit(SysHeapBase + 8), Neg(4)}

\* a2: byte counts
SysArg2 == {Lit(0), Lit(4)}

\* the memory m with its arrays written out
Stored(m) == [m EXCEPT !.mem = m.mem @@ m.mem, !.perms = m.perms @@ m.perms]

\* one push! of main
SysPush(st, val) == [push(st, val) EXCEPT !.m = Stored(push(st, val).m)]

\* the state when main enters its loop: the guest e loaded (ld), the stack
\* (st) filled by the pushes (last), the heap (hp) allocated
SysStart(e, ld, st, last, hp) ==
    /\ ld.res.kind = "Ok" /\ st.res.kind = "Ok" /\ last.ok /\ hp.res.kind = "Ok"
    /\ elf = e
    /\ mem = hp.m.mem
    /\ perms = hp.m.perms
    /\ free = hp.m.free
    /\ main = [stack_start |-> Lit(st.start), stack_end |-> Lit(st.end),
               sp |-> last.sp,
               heap_start |-> Lit(hp.start), heap_end |-> Lit(hp.end),
               current_brk |-> Lit(hp.start)]
    /\ written = last.w
    /\ claimed = SegmentAddrs(e.load_segments, ld.done)
                    \cup (st.start..(st.end - 1)) \cup (hp.start..(hp.end - 1))
    /\ pc = e.entry
    /\ lpc = e.entry

\* main up to the loop, statement by statement
SysSetup(e) ==
    \E ld \in {Emulator_load(Memory_new(SysMemorySize), e)} :
    \E st \in {Memory_allocate(Stored(ld.m), stack_size, BitOr(PERM_RAW, PERM_WRITE))} :
    \E progname \in {SysPush([ok |-> TRUE, m |-> Stored(st.m), sp |-> Lit(st.end),
                              w |-> << >>], progname_bytes)} :
    \E auxv \in {SysPush(progname, to_le_bytes_u32(Lit(0)))} :
    \E auxp \in {SysPush(auxv, to_le_bytes_u32(Lit(0)))} :
    \E envp \in {SysPush(auxp, to_le_bytes_u32(Lit(0)))} :
    \E argn \in {SysPush(envp, to_le_bytes_u32(Lit(0)))} :
    \E argv \in {SysPush(argn, to_le_bytes_u32(progname.sp))} :
    \E argc \in {SysPush(argv, to_le_bytes_u32(Lit(1)))} :
    \E hp \in {Memory_allocate(argc.m, SysHeapSize, BitOr(PERM_RAW, PERM_WRITE))} :
    \E heap \in {[hp EXCEPT !.m = Stored(hp.m)]} :
        SysStart(e, ld, st, argc, heap)

SysInit ==
    /\ overflow_checks \in BOOLEAN
    /\ phase = "run"
    /\ ret = NoRet
    /\ call = NoCall
    /\ steps = 0
    /\ \E second \in SysSecond : SysSetup(SysElf(second))
    /\ \E no \in SysNumbers, a0 \in SysArg0, a1 \in SysArg1, a2 \in SysArg2 :
          regs = [ZeroRegs EXCEPT ![RegName_Sp] = main.sp, ![17] = Lit(no),
                                  ![10] = a0, ![11] = a1, ![12] = a2]

SysNext ==
    \/ Step
    \/ Dispatch

SpecSys == SysInit /\ [][SysNext]_vars

---------------------------------------------------------------------------
(* SpecExec: one iteration of the loop of Emulator::run on an instruction   *)
(* the fetch at pc returned, for operands of every sign and size.  The      *)
(* memory of main is 25 MiB with the code at addresses like 0x10000; here   *)
(* mem is the window [0, ExecMemSize) of it that the loads and stores       *)
(* reach, readable and writable, and pc keeps the addresses of the code.    *)
(* x1 and x2 hold the operands, x3 takes the results.                       *)

\* register values: 0, 1, 33, i32::MAX, i32::MIN, -4, -1
ExecValues ==
    {Zero, Lit(1), Lit(33), Mk(32767, 65535), Mk(32768, 0), Neg(4), Neg(1)}

\* addresses of instructions inside the 25 MiB memory
ExecPcs == {Mk(1, 0), Mk(1, 236)}

\* the byte at address a of the data window: 0x7e, 0x7f, 0x80, 0x81, ...
ExecByte(a) == (126 + a) % 256

\* immediates of LUI and AUIPC
ExecUImms == {Mk(1, 4096), Mk(32768, 0), Mk(65535, 0)}

\* offsets of JAL: 8, -8, 2^20 - 2, -2^20
ExecJOffsets == {Lit(8), Neg(8), Mk(15, 65534), Mk(65520, 0)}

\* EBREAK and the words outside RV32I: opcodes of no instruction (0, LOAD-FP,
\* AMO, all ones), unused funct3 of BRANCH, LOAD, STORE, FENCE, MUL and a
\* funct7 of no OP, shifts with other upper immediate bits, SYSTEM words with
\* imm 2, rs1, rd or funct3 set
ExecOddWords ==
    {EncI(OPC_SYSTEM, 0, 0, 0, Lit(1))}
        \cup {Zero, Lit(7), Lit(47), Mk(65535, 65535)}
        \cup {EncB(OPC_BRANCH, 3, 1, 2, Neg(8))}
        \cup {EncI(OPC_LOAD, 3, f, 1, Lit(0)) : f \in {3, 6, 7}}
        \cup {EncS(OPC_STORE, f, 1, 2, imm) : f \in {4, 7}, imm \in {Lit(0), Neg(1)}}
        \cup {EncR(OPC_OP, 3, 0, 1, 2, 1), EncR(OPC_OP, 3, 5, 1, 2, 64)}
        \cup {EncI(OPC_OP_IMM, 3, f, 1, Lit(33)) : f \in {1, 5}}
        \cup {EncI(OPC_MISC_MEM, 0, 1, 0, Zero)}
        \cup {EncI(OPC_SYSTEM, 0, 0, 0, Lit(2)), EncI(OPC_SYSTEM, 0, 0, 1, Zero),
              EncI(OPC_SYSTEM, 1, 0, 0, Zero), EncI(OPC_SYSTEM, 3, 1, 1, Lit(1))}

ExecPool ==
    {EncU(OPC_LUI, 3, imm) : imm \in ExecUImms}
        \cup {EncU(OPC_AUIPC, 3, imm) : imm \in ExecUImms}
        \cup {EncJ(OPC_JAL, 3, imm) : imm \in ExecJOffsets}
        \cup {EncI(OPC_JALR, rd, 0, 1, imm) : rd \in {1, 3}, imm \in {Lit(4), Neg(4)}}
        \cup {EncI(OPC_JALR, 3, 1, 1, Lit(4))}
        \cup {EncB(OPC_BRANCH, f, 1, 2, imm) : f \in {0, 1, 4, 5, 6, 7}, imm \in {Lit(8), Neg(8)}}
        \cup {EncB(OPC_BRANCH, 2, 1, 2, Lit(8))}
        \cup {EncI(OPC_LOAD, 3, f, 1, imm) : f \in 0..5, imm \in {Lit(0), Lit(2), Lit(4)}}
        \cup {EncS(OPC_STORE, f, 1, 2, imm) : f \in 0..3, imm \in {Lit(0), Lit(4), Neg(1)}}
        \cup {EncI(OPC_OP_IMM, 3, f, 1, imm) :
                 f \in 0..7, imm \in {Lit(1), Lit(31), Neg(1), Lit(1025)}}
        \cup {EncR(OPC_OP, 3, f, 1, 2, f7) : f \in 0..7, f7 \in {0, 32}}
        \cup {EncI(OPC_MISC_MEM, 0, 0, 0, Zero), EncI(OPC_SYSTEM, 0, 0, 0, Zero)}
        \cup ExecOddWords

ExecInit ==
    /\ overflow_checks \in BOOLEAN
    /\ elf = NoElf
    /\ mem = [a \in 0..(ExecMemSize - 1) |-> ExecByte(a)]
    /\ perms = [a \in 0..(ExecMemSize - 1) |-> BitOr(PERM_READ, PERM_WRITE)]
    /\ free = << >>
    /\ \E p \in ExecPcs :
          /\ pc = p
          /\ lpc = p
    /\ \E a \in ExecValues, b \in ExecValues :
          regs = [ZeroRegs EXCEPT ![1] = a, ![2] = b]
    /\ phase = "exec"
    /\ ret = NoRet
    /\ main = NoMain
    /\ steps = 0
    /\ claimed = {}
    /\ call = NoCall
    /\ written = << >>

\* the effect of the iteration it: the loop goes on, run returns, or a panic
Executed(it, instr) ==
    /\ SetMemory(it.m)
    /\ regs' = it.regs
    /\ lpc' = it.pc
    /\ ret' = it.exit
    /\ call' = [op |-> "step", pc |-> lpc, fetched |-> TRUE, instr |-> instr]
    /\ phase' = CASE it.exit.kind = "none"  -> "continued"
                  [] it.exit.kind = "Panic" -> "panicked"
                  [] OTHER                  -> "exited"
    /\ pc' = IF it.exit.kind \in {"none", "Panic"} THEN pc ELSE it.pc

\* the loop body after the fetch of instr at the local pc
ExecStep(instr) ==
    /\ phase = "exec"
    /\ steps' = steps + 1
    /\ Executed(Fetched(TheMemory, regs, lpc, [res |-> Ok, val |-> instr]), instr)
    /\ UNCHANGED <<overflow_checks, elf, main, claimed, written>>

ExecNext == \E instr \in ExecPool : ExecStep(instr)

SpecExec == ExecInit /\ [][ExecNext]_vars

\* SpecExecSeq: SpecExec with a second call of the loop body: the unsigned
\* load of at most the stored width at the address of a store that went on,
\* and run called again on the instruction that made it return
\* InvalidInstruction or InvalidMemoryAccess.
ExecLoadBacks ==
    {EncI(OPC_LOAD, 3, f, 1, imm) : f \in {2, 4, 5}, imm \in {Lit(0), Lit(4), Neg(1)}}

\* the bytes of the access with this funct3: 1 for SB and LBU, 2 for SH and
\* LHU, 4 for SW and LW
AccessWidth(funct3) == CASE funct3 \in {0, 4} -> 1 [] funct3 \in {1, 5} -> 2 [] OTHER -> 4

ExecLoadBack(instr) ==
    /\ phase = "continued"
    /\ steps = 1
    /\ Lo(And32(call.instr, LowMask(7))) = OPC_STORE
    /\ IType_parse(instr).imm = SType_parse(call.instr).imm
    /\ AccessWidth(IType_parse(instr).funct3) <= AccessWidth(SType_parse(call.instr).funct3)
    /\ steps' = steps + 1
    /\ Executed(Fetched(TheMemory, regs, lpc, [res |-> Ok, val |-> instr]), instr)
    /\ UNCHANGED <<overflow_checks, elf, main, claimed, written>>

ExecAgain ==
    /\ phase = "exited"
    /\ steps = 1
    /\ ret.kind \in {"InvalidInstruction", "InvalidMemoryAccess"}
    /\ steps' = steps + 1
    /\ Executed(Fetched(TheMemory, regs, lpc, [res |-> Ok, val |-> call.instr]), call.instr)
    /\ UNCHANGED <<overflow_checks, elf, main, claimed, written>>

ExecSeqNext ==
    \/ \E instr \in ExecPool : ExecStep(instr)
    \/ \E instr \in ExecLoadBacks : ExecLoadBack(instr)
    \/ ExecAgain

SpecExecSeq == ExecInit /\ [][ExecSeqNext]_vars

---------------------------------------------------------------------------
(* Claims about the RangeSet (checked under SpecRS). *)

SetMin(S) == CHOOSE x \in S : \A y \in S : x <= y

\* the interval [x, y) as a list of stored ranges: nothing when it is empty
Side(x, y) == IF x = y THEN << >> ELSE << <<x, y>> >>

\* `ranges` with its i-th range replaced by the ranges of `by`
Replaced(ranges, i, by) == SubSeq(ranges, 1, i-1) \o by \o SubSeq(ranges, i+1, Len(ranges))

RemoveContract(before, s, e, result, after) ==
    LET hits == {i \in 1..Len(before) :
                    before[i][1] <= s /\ s < before[i][2] /\ e <= before[i][2]}
    IN  IF hits = {}
        THEN result.kind = "OutOfBounds" /\ after = before
        ELSE LET i == SetMin(hits)
                 a == before[i][1]
                 b == before[i][2]
             IN  /\ result.kind = "Ok"
                 /\ after = Replaced(before, i, Side(a, s) \o Side(e, b))

\* C9: RangeSet::remove(s,e) succeeds exactly when a stored interval [a,b) has
\* a <= s < b and e <= b; then that (first such) interval is replaced in place by
\* [a,s) and [e,b), an empty side dropped, and every other interval is unchanged;
\* otherwise it returns OutOfBounds and the set is unchanged.
C9_RemoveContract ==
    [][call'.op = "remove" =>
         RemoveContract(free, call'.start, call'.end, ret', free')]_vars

\* a remove that split the interval it found in two
C9_Witness ==
    /\ call.op = "remove"
    /\ ret.kind = "Ok"
    /\ call.start < call.end
    /\ Len(free) = 2
    /\ free[1][2] = call.start
    /\ free[2][1] = call.end

FirstFitContract(before, size, result, after) ==
    LET fits == {i \in 1..Len(before) : before[i][2] - before[i][1] >= size}
    IN  IF fits = {}
        THEN result.kind = "NoFit" /\ after = before
        ELSE LET i == SetMin(fits)
                 start == before[i][1]
                 b == before[i][2]
             IN  /\ result = [kind |-> "Ok", start |-> start, end |-> start + size]
                 /\ after = Replaced(before, i, Side(start, start) \o Side(start + size, b))

C39_RangeSetWellFormed ==
    /\ \A i \in 1..Len(free) :
          /\ free[i][1] < free[i][2]
          /\ main.start <= free[i][1]
          /\ free[i][2] <= main.end
    /\ \A i \in 1..Len(free), j \in 1..Len(free) :
          i < j => free[i][2] <= free[j][1]

\* the sizes of the blocks a loop of remove_first_fit calls returned, summed
RECURSIVE TotalRemoved(_)
TotalRemoved(blocks) ==
    IF blocks = << >> THEN 0
    ELSE (Head(blocks)[2] - Head(blocks)[1]) + TotalRemoved(Tail(blocks))

\* the blocks start at `from` and each starts where the one before it ends
Consecutive(blocks, from) ==
    /\ blocks # << >> => blocks[1][1] = from
    /\ \A i \in 1..(Len(blocks) - 1) : blocks[i+1][1] = blocks[i][2]

\* the first call after new(a, b), with k <= b - a, returns (a, a + k)
FirstBlock ==
    (Len(written) = 0 /\ call'.size <= main.end - main.start) =>
        ret' = [kind |-> "Ok", start |-> main.start, end |-> main.start + call'.size]

\* every block of the loop has the size k: the loop repeated remove_first_fit(k)
SameSize(blocks, k) == \A i \in 1..Len(blocks) : blocks[i][2] - blocks[i][1] = k

---------------------------------------------------------------------------
(* Claims about the decoders (checked under SpecDecode).  The immediates of *)
(* the RV32I base formats, bit by bit: RouteX(i) is the instruction bit     *)
(* that immediate bit i copies, -1 for a bit that is always 0.              *)

\* bit k of a u32
BitOf(w, k) == (IF k >= 16 THEN Hi(w) \div 2^(k - 16) ELSE Lo(w) \div 2^k) % 2

RouteI(i) == IF i <= 10 THEN 20 + i ELSE 31

RouteS(i) == IF i <= 4 THEN 7 + i ELSE IF i <= 10 THEN 20 + i ELSE 31

RouteB(i) ==
    IF i = 0 THEN -1
    ELSE IF i <= 4 THEN 7 + i
    ELSE IF i <= 10 THEN 20 + i
    ELSE IF i = 11 THEN 7
    ELSE 31

RouteJ(i) ==
    IF i = 0 THEN -1
    ELSE IF i <= 10 THEN 20 + i
    ELSE IF i = 11 THEN 20
    ELSE IF i <= 19 THEN i
    ELSE 31

\* bit i of the immediate is the instruction bit its format routes to it
Routed(imm, instr, i, from) == BitOf(imm, i) = IF from = -1 THEN 0 ELSE BitOf(instr, from)

\* C12: JType::parse returns, for every word, the offset built from instr[31],
\* instr[19:12], instr[20], instr[30:21], 0 and sign-extended to 32 bits: bits
\* 31..20 of imm all equal instr[31].
C12_JTypeSignExtended ==
    call.op = "JType" => \A i \in 0..31 : Routed(ret.imm, call.instr, i, RouteJ(i))

\* C13: for every word, the I and S immediates have bits 31..11 equal to
\* instr[31], the B immediate has bits 31..12 equal to instr[31] and bit 0 equal
\* to 0, and the remaining bits are the instruction fields of the format.
C13_ImmediatesSignExtended ==
    /\ call.op = "IType" => \A i \in 0..31 : Routed(ret.imm, call.instr, i, RouteI(i))
    /\ call.op = "SType" => \A i \in 0..31 : Routed(ret.imm, call.instr, i, RouteS(i))
    /\ call.op = "BType" => \A i \in 0..31 : Routed(ret.imm, call.instr, i, RouteB(i))

\* a word with the sign bit and one field bit set was parsed as I, S or B type:
\* the immediate is negative and carries the field bit
C13_Witness ==
    /\ call.op \in {"IType", "SType", "BType"}
    /\ BitOf(call.instr, 31) = 1
    /\ BitOf(call.instr, 7) = 1
    /\ BitOf(call.instr, 25) = 0
    /\ \A i \in 12..31 : BitOf(ret.imm, i) = 1
    /\ \E i \in 0..10 : BitOf(ret.imm, i) = 0

---------------------------------------------------------------------------
(* Claims about Memory's free set and Memory::allocate (checked under       *)
(* SpecAlloc).                                                              *)

InFree(ranges, a) == \E i \in 1..Len(ranges) : ranges[i][1] <= a /\ a < ranges[i][2]

\* C7: in every Memory state reachable through Memory::new, Emulator::load,
\* Memory::allocate (successful or failing) and guest writes, an address of
\* [0,N) is covered by the free set iff its permission byte is zero and no
\* loaded segment and no returned allocation contains it.
C7_FreeIffUnowned ==
    \A a \in DOMAIN perms :
        InFree(free, a) <=> (perms[a] = 0 /\ a \notin claimed)

AllocateContract(before, beforePerms, size, perm, result, afterPerms) ==
    LET fits == {i \in 1..Len(before) : before[i][2] - before[i][1] >= size}
    IN  IF fits = {}
        THEN result.kind = "OutOfMemory"
        ELSE LET start == before[SetMin(fits)][1] IN
             /\ result.kind = "Ok"
             /\ result.start = start
             /\ result.end = start + size
             /\ \A a \in DOMAIN beforePerms :
                   afterPerms[a] = IF start <= a /\ a < start + size
                                   THEN perm ELSE beforePerms[a]

\* C8: Memory::allocate(size, perms) succeeds whenever some interval of the
\* free set has length >= size: it returns the first-fit block (start,
\* start+size), stamps perms on every address of the block and leaves every
\* other permission byte unchanged; it fails only when no free interval is
\* large enough, and then with OutOfMemory.
C8_AllocateContract ==
    [][call'.op = "allocate" =>
         AllocateContract(free, perms, call'.size, call'.perms, ret', perms')]_vars

\* load_addr + mem_size rounded up to a multiple of 4, unchanged when it is one
RoundUp4(n) == IF n % 4 = 0 THEN n ELSE n + (4 - (n % 4))

FlagSet(flags, bit) == (flags \div bit) % 2 = 1

\* (R?0x01)|(W?0x02)|(X?0x04), R, W, X the bits 4, 2, 1 of the segment flags
FlagsPerm(flags) ==
    (IF FlagSet(flags, 4) THEN 1 ELSE 0) + (IF FlagSet(flags, 2) THEN 2 ELSE 0)
        + (IF FlagSet(flags, 1) THEN 4 ELSE 0)

\* the segments whose range [load_addr, round_up_to_4(load_addr + mem_size))
\* holds the address
SegmentsAt(segs, a) ==
    {i \in 1..Len(segs) :
        /\ segs[i].load_address <= a
        /\ a < RoundUp4(segs[i].load_address + segs[i].size)}

\* the range of segment i: [load_addr, round_up_to_4(load_addr + mem_size))
SegmentRange(segs, i) ==
    segs[i].load_address..(RoundUp4(segs[i].load_address + segs[i].size) - 1)

\* a segment of the Elf overlaps an address claimed before or a segment
\* before it
SegmentOverlaps(segs, owned) ==
    \E i \in 1..Len(segs) :
        \/ SegmentRange(segs, i) \cap owned # {}
        \/ \E j \in 1..(i - 1) : SegmentRange(segs, i) \cap SegmentRange(segs, j) # {}

C29_LoadClaimsSegments ==
    [][call'.op = "load" =>
         \A a \in DOMAIN perms :
            /\ SegmentsAt(elf'.load_segments, a) = {} =>
                  /\ perms'[a] = perms[a]
                  /\ InFree(free', a) <=> InFree(free, a)
            /\ ret'.kind = "Ok" =>
                  \A i \in SegmentsAt(elf'.load_segments, a) :
                     /\ perms'[a] = FlagsPerm(elf'.load_segments[i].flags)
                     /\ ~InFree(free', a)]_vars

\* the memory no operation has touched yet
IsFresh == /\ \A a \in DOMAIN mem : mem[a] = 0 /\ perms[a] = 0
           /\ \A a \in DOMAIN mem : InFree(free, a)

\* the segments whose file bytes [load_addr, load_addr + file_size) hold the address
FileAt(segs, a) ==
    {i \in 1..Len(segs) :
        /\ segs[i].load_address <= a
        /\ a < segs[i].load_address + segs[i].file_size}

---------------------------------------------------------------------------
(* Claims about the Memory API (checked under SpecMem).                     *)

HasPerm(byte, bit) == (byte \div bit) % 2 = 1

WriteOps == {"write", "write_u8", "write_u16", "write_u32"}

\* the effect on one permission byte of a successful write that covers it or not
WritePermEffect(before, after, covered) ==
    IF covered /\ HasPerm(before, PERM_RAW)
    THEN /\ ~HasPerm(after, PERM_RAW)
         /\ HasPerm(after, PERM_READ)
         /\ HasPerm(after, PERM_WRITE) <=> HasPerm(before, PERM_WRITE)
         /\ HasPerm(after, PERM_EXEC) <=> HasPerm(before, PERM_EXEC)
         /\ after \div 16 = before \div 16
    ELSE after = before

\* C3: a successful Memory::write over [addr, addr+len) changes permission
\* bytes only so: a byte of the range that had RAW gets RAW cleared and R set,
\* its other bits kept; a byte of the range without RAW, and every byte outside
\* the range, keeps its permission byte (a byte with W but neither R nor RAW
\* stays unreadable).
C3_WritePermissions ==
    [][(call'.op \in WriteOps /\ ret'.kind = "Ok") =>
         \A a \in DOMAIN perms :
            WritePermEffect(perms[a], perms'[a],
                            Lo(call'.start) <= a /\ a < Lo(call'.start) + call'.len)]_vars

\* a one-byte write at 0 made the first byte of a RAW|W block readable and left
\* the second byte of the block poisoned
C3_Witness ==
    /\ call.op = "write_u8"
    /\ ret.kind = "Ok"
    /\ call.start = Lit(0)
    /\ perms[0] = BitOr(PERM_READ, PERM_WRITE)
    /\ perms[1] = BitOr(PERM_RAW, PERM_WRITE)

\* is the byte range of the call contained in [0, n)
CallInside(c, n) ==
    IF c.op \in {"read", "set_permissions"}
    THEN \/ Ge32(c.start, c.end)
         \/ Hi(c.end) = 0 /\ Lo(c.end) <= n
    ELSE Hi(c.start) = 0 /\ Lo(c.start) + c.len <= n

\* C6: every memory access (read, write, the typed helpers, set_permissions)
\* whose byte range is not contained in [0,N) fails with OutOfBounds and changes
\* neither memory bytes nor permission bytes, also when the end of the range
\* exceeds 2^32-1.
C6_OutOfRangeFails ==
    [][(phase' = "probed" /\ ~CallInside(call', MemSize)) =>
         /\ ret'.kind = "OutOfBounds"
         /\ mem' = mem
         /\ perms' = perms]_vars

\* the range [start, end) of the call satisfies 0 <= start <= end <= n
CallWithin(c, n) ==
    IF c.op \in {"read", "set_permissions"}
    THEN Hi(c.start) = 0 /\ Hi(c.end) = 0 /\ Lo(c.start) <= Lo(c.end) /\ Lo(c.end) <= n
    ELSE Hi(c.start) = 0 /\ Lo(c.start) + c.len <= n

\* C34: the bounds check rejects only accesses that leave [0,N): every read,
\* write or set_permissions whose range [start, end) has
\* 0 <= start <= end <= N passes it, so the byte N-1 is accessible and a range
\* ending exactly at N can be read, written and stamped.
C34_BoundsAcceptInside ==
    [][(phase' = "probed" /\ CallWithin(call', MemSize)) =>
         ret'.kind # "OutOfBounds"]_vars

---------------------------------------------------------------------------
(* Claims about the emulator process (checked under Spec). *)

\* C4: in every state the process reaches (load, stack and heap allocation,
\* the initial-stack pushes, guest instructions, serviced syscalls) no
\* permission byte has both RAW and R set.
C4_RawExcludesRead ==
    \A a \in DOMAIN perms : ~(HasPerm(perms[a], PERM_RAW) /\ HasPerm(perms[a], PERM_READ))

\* the guest has stored into the heap: the written bytes are readable, and
\* the rest of the heap is still poisoned
C4_Witness ==
    /\ phase = "run"
    /\ call.op = "step"
    /\ \E a \in DOMAIN perms :
          /\ a >= Lo(main.heap_start)
          /\ a + 1 < Lo(main.heap_end)
          /\ perms[a] = BitOr(PERM_READ, PERM_WRITE)
          /\ perms[a + 1] = BitOr(PERM_RAW, PERM_WRITE)

\* the opcode field of an instruction word
Opcode(instr) == Lo(And32(instr, LowMask(7)))

\* the opcodes of the instructions that have an rd field
RdOpcodes == {OPC_LUI, OPC_AUIPC, OPC_JAL, OPC_JALR, OPC_LOAD, OPC_OP_IMM, OPC_OP}

\* the step just taken fetched and executed an instruction of these opcodes with rd = x0
SteppedRdZero(c) ==
    /\ c.op = "step"
    /\ c.fetched
    /\ Opcode(c.instr) \in RdOpcodes
    /\ field_rd(c.instr) = 0

\* C1: x0 is hard-wired to zero: read_reg(x0) returns 0 in every state, and
\* executing an instruction whose rd field is 0 (LUI, AUIPC, JAL, JALR, a
\* load, OP-IMM, OP) leaves the 31 stored registers x1..x31 unchanged.
C1_X0Hardwired ==
    [][/\ read_reg(regs', 0) = Zero
       /\ (steps' = steps + 1 /\ SteppedRdZero(call')) => regs' = regs]_vars

\* a load into x0 has read the argc word of the stack and the loop went on
C1_Witness ==
    /\ phase = "run"
    /\ SteppedRdZero(call)
    /\ Opcode(call.instr) = OPC_LOAD
    /\ call.pc = Lit(4)
    /\ lpc = Lit(8)
    /\ regs[RegName_Sp] # Zero

\* do all four bytes at the u32 address p lie in the memory and carry X
AllExec(p) ==
    /\ Hi(p) = 0
    /\ \A i \in 0..3 :
          /\ Lo(p) + i \in DOMAIN perms
          /\ HasPerm(perms[Lo(p) + i], PERM_EXEC)

\* C5: an instruction is executed only if all four bytes at pc carry X: when
\* one of the bytes pc..pc+3 lacks X, run exits with InvalidMemoryAccess and
\* the step changes no register and no memory byte.
C5_FetchNeedsExec ==
    [][(phase = "run" /\ steps' = steps + 1 /\ ~AllExec(lpc)) =>
         /\ phase' = "exited"
         /\ ret'.kind = "InvalidMemoryAccess"
         /\ regs' = regs
         /\ mem' = mem]_vars

\* the addresses of the stack and of the heap, the blocks allocated with RAW|W
RawBlocks ==
    (Lo(main.stack_start)..(Lo(main.stack_end) - 1)) \cup
    (Lo(main.heap_start)..(Lo(main.heap_end) - 1))

\* the number of bytes a load of this funct3 reads
LoadSize(funct3) == IF funct3 \in {0, 4} THEN 1 ELSE IF funct3 \in {1, 5} THEN 2 ELSE 4

\* the addresses the load instruction reads, when they do not pass 2^32
LoadRange(r, instr) ==
    LET typ == IType_parse(instr)
        addr == WrappingAdd(read_reg(r, typ.rs1), typ.imm)
    IN  IF Hi(addr) = 0 THEN Lo(addr)..(Lo(addr) + LoadSize(typ.funct3) - 1) ELSE {}

\* the value of bytes b (least significant first) that LB/LH sign-extend and
\* LW/LBU/LHU zero-extend
Loaded(funct3, b) ==
    CASE funct3 = 0 -> IF b[1] >= 128 THEN Mk(65535, 65280 + b[1]) ELSE Mk(0, b[1])
      [] funct3 = 1 -> IF b[2] >= 128 THEN Mk(65535, b[1] + 256 * b[2])
                                      ELSE Mk(0, b[1] + 256 * b[2])
      [] funct3 = 2 -> Mk(b[3] + 256 * b[4], b[1] + 256 * b[2])
      [] funct3 = 4 -> Mk(0, b[1])
      [] funct3 = 5 -> Mk(0, b[1] + 256 * b[2])

\* the step just taken fetched a LB, LH, LW, LBU or LHU
SteppedLoad(c) ==
    /\ c.op = "step"
    /\ c.fetched
    /\ Opcode(c.instr) = OPC_LOAD
    /\ field_funct3(c.instr) \in {0, 1, 2, 4, 5}

\* what C2 asks of a load of the addresses range into rd
PoisonContract(funct3, rd, range) ==
    /\ (range \cap (RawBlocks \ DOMAIN written) # {}) =>
          /\ phase' = "exited"
          /\ ret'.kind = "InvalidMemoryAccess"
          /\ ret'.err.kind = "BadPermissions"
          /\ ret'.err.access = PERM_READ
          /\ regs' = regs
    /\ (range # {} /\ range \subseteq (RawBlocks \cap DOMAIN written)) =>
          /\ phase' = "run"
          /\ regs' = write_reg(regs, rd,
                               Loaded(funct3, [i \in 1..Cardinality(range) |->
                                                  written[SetMin(range) + i - 1]]))

\* C2: read-after-write poisoning. A load whose range touches a byte of the
\* stack or the heap (allocated RAW|W) that no successful write has covered
\* makes run exit with InvalidMemoryAccess(BadPermissions, access = R); a load
\* whose whole range has been covered by successful writes succeeds and
\* returns the value stored.
C2_ReadAfterWrite ==
    [][(phase = "run" /\ steps' = steps + 1 /\ SteppedLoad(call')) =>
         PoisonContract(field_funct3(call'.instr), field_rd(call'.instr),
                        LoadRange(regs, call'.instr))]_vars

\* after sb to the heap's second byte, lb or lbu of that byte returned the
\* byte stored while the heap's first byte is still poisoned
C2_Witness ==
    /\ phase = "run"
    /\ SteppedLoad(call)
    /\ steps = 2
    /\ regs[7] = Lit(AsU8(regs[RegName_Sp]))
    /\ regs[7] # Zero
    /\ Lo(main.heap_start) \notin DOMAIN written
    /\ Lo(main.heap_start) + 1 \in DOMAIN written
    /\ HasPerm(perms[Lo(main.heap_start)], PERM_RAW)

\* the four bytes at address a
WordAt(a) == <<mem[a], mem[a + 1], mem[a + 2], mem[a + 3]>>

\* what the guest finds above the address sp when it starts
InitialStack(sp, stack_end) ==
    /\ WordAt(sp) = <<1, 0, 0, 0>>
    /\ WordAt(sp + 4) = <<(sp + 24) % 256, (sp + 24) \div 256, 0, 0>>
    /\ WordAt(sp + 8) = <<0, 0, 0, 0>>
    /\ WordAt(sp + 12) = <<0, 0, 0, 0>>
    /\ WordAt(sp + 16) = <<0, 0, 0, 0>>
    /\ WordAt(sp + 20) = <<0, 0, 0, 0>>
    /\ <<mem[sp + 24], mem[sp + 25], mem[sp + 26], mem[sp + 27], mem[sp + 28]>>
          = <<116, 101, 115, 116, 0>>
    /\ sp + 29 = stack_end

\* C31: at guest start the stack holds, from sp upward, argc (1) at sp,
\* argv[0] at sp+4 pointing at the program-name bytes, the zero argv
\* terminator at sp+8, the zero envp terminator at sp+12, the two zero auxv
\* words at sp+16 and sp+20, then the program name test\0 ending exactly at
\* stack_end; x2 is the lowest written address and every byte of
\* [sp, stack_end) is readable.
C31_InitialStack ==
    (phase = "pushed" \/ (phase = "run" /\ steps = 0)) =>
        /\ Hi(regs[RegName_Sp]) = 0
        /\ InitialStack(Lo(regs[RegName_Sp]), Lo(main.stack_end))
        /\ \A a \in Lo(regs[RegName_Sp])..(Lo(main.stack_end) - 1) :
              /\ HasPerm(perms[a], PERM_READ)
              /\ a \in DOMAIN written
        /\ \A a \in Lo(main.stack_start)..(Lo(regs[RegName_Sp]) - 1) :
              /\ ~HasPerm(perms[a], PERM_READ)
              /\ a \notin DOMAIN written

\* the guest is about to start on the stack main pushed
C31_Witness ==
    /\ phase = "run"
    /\ steps = 0
    /\ Lo(regs[RegName_Sp]) + 29 = Lo(main.stack_end)
    /\ mem[Lo(regs[RegName_Sp])] = 1
    /\ mem[Lo(main.stack_end) - 5] = 116

---------------------------------------------------------------------------
(* Claims about the instructions (checked under SpecExec).  The reference   *)
(* values are built bit by bit from the instruction word and the operands,  *)
(* apart from the decoders and the arms of run.                             *)

\* the number whose binary digits are f[lo], f[lo + 1], ... (n of them)
RECURSIVE BitsValue(_, _, _)
BitsValue(f, lo, n) == IF n = 0 THEN 0 ELSE f[lo] + 2 * BitsValue(f, lo + 1, n - 1)

\* the u32 whose bit i is f[i]
FromBits(f) == Mk(BitsValue(f, 16, 16), BitsValue(f, 0, 16))

\* the bits of a u32
BitsOf(w) == [i \in 0..31 |-> BitOf(w, i)]

\* instr[lo + n - 1 : lo]
Field(instr, lo, n) == BitsValue(BitsOf(instr), lo, n)

\* the sign-extended immediate of a format, by its route
RefImm(instr, Route(_)) ==
    FromBits([i \in 0..31 |-> IF Route(i) = -1 THEN 0 ELSE BitOf(instr, Route(i))])

\* c = (a + b) mod 2^32, by the carries of the two halves
IsSum(a, b, c) ==
    \E c0 \in {0, 1}, c1 \in {0, 1} :
        /\ Lo(a) + Lo(b) = Lo(c) + c0 * Half
        /\ Hi(a) + Hi(b) + c0 = Hi(c) + c1 * Half

\* the registers after are the registers before with v in rd (x0 takes nothing)
OnlyRd(before, after, rd, v) ==
    \A x \in 1..31 : after[x] = IF x = rd THEN v ELSE before[x]

\* the loop went on at next with rd written and the memory untouched
Jumped(next, rd, link) ==
    /\ ret'.kind = "none"
    /\ lpc' = next
    /\ OnlyRd(regs, regs', rd, link)
    /\ mem' = mem
    /\ perms' = perms

\* C14: JAL at pc with the encoded offset o (even, -2^20 <= o < 2^20, forward
\* or backward) sets the next pc to (pc + o) mod 2^32 and writes pc + 4 to rd;
\* no other register and no memory byte changes.
C14_JalJumps ==
    [][Opcode(call'.instr) = OPC_JAL =>
         \E next \in {WrappingAdd(lpc, RefImm(call'.instr, RouteJ))} :
             /\ IsSum(lpc, RefImm(call'.instr, RouteJ), next)
             /\ Jumped(next, Field(call'.instr, 7, 5), WrappingAdd(lpc, Lit(4)))]_vars

\* C15: JALR with funct3 = 0 sets the next pc to (rs1 + sign-extended imm) mod
\* 2^32 from the value rs1 held before the instruction and writes old pc + 4 to
\* rd, also when rd = rs1; JALR with funct3 # 0 exits InvalidInstruction.
C15_JalrJumps ==
    [][Opcode(call'.instr) = OPC_JALR =>
         IF Field(call'.instr, 12, 3) = 0
         THEN \E next \in {WrappingAdd(read_reg(regs, Field(call'.instr, 15, 5)),
                                        RefImm(call'.instr, RouteI))} :
                 /\ IsSum(read_reg(regs, Field(call'.instr, 15, 5)),
                          RefImm(call'.instr, RouteI), next)
                 /\ IsSum(lpc, Lit(4), WrappingAdd(lpc, Lit(4)))
                 /\ Jumped(next, Field(call'.instr, 7, 5), WrappingAdd(lpc, Lit(4)))
         ELSE /\ ret' = InvalidInstruction(call'.instr)
              /\ regs' = regs
              /\ mem' = mem]_vars

\* jalr x1, -4(x1) with x1 = 1 ran: the pc is 1 - 4 and x1 holds the link
C15_Witness ==
    /\ phase = "continued"
    /\ Opcode(call.instr) = OPC_JALR
    /\ Field(call.instr, 7, 5) = 1
    /\ Field(call.instr, 15, 5) = 1
    /\ lpc = Mk(65535, 65533)
    /\ regs[1] = WrappingAdd(call.pc, Lit(4))

\* a < b as two's complement numbers: by the sign bits, then as unsigned
RefLtSigned(a, b) ==
    \/ BitOf(a, 31) = 1 /\ BitOf(b, 31) = 0
    \/ BitOf(a, 31) = BitOf(b, 31) /\ Lt32(a, b)

\* the condition of the branch funct3 on a = rs1 and b = rs2
RefBranch(funct3, a, b) ==
    CASE funct3 = 0 -> a = b
      [] funct3 = 1 -> a # b
      [] funct3 = 4 -> RefLtSigned(a, b)
      [] funct3 = 5 -> ~RefLtSigned(a, b)
      [] funct3 = 6 -> Lt32(a, b)
      [] funct3 = 7 -> ~Lt32(a, b)

\* C16: a branch evaluates BEQ/BNE as equality of the 32-bit values, BLT/BGE as
\* signed and BLTU/BGEU as unsigned comparison; when the condition holds the
\* next pc is (pc + imm) mod 2^32, the immediate added once, otherwise pc + 4;
\* registers and memory are unchanged.
C16_BranchSemantics ==
    [][(Opcode(call'.instr) = OPC_BRANCH /\ Field(call'.instr, 12, 3) \in {0, 1, 4, 5, 6, 7}) =>
         /\ ret'.kind = "none"
         /\ IsSum(lpc,
                  IF RefBranch(Field(call'.instr, 12, 3),
                               read_reg(regs, Field(call'.instr, 15, 5)),
                               read_reg(regs, Field(call'.instr, 20, 5)))
                  THEN RefImm(call'.instr, RouteB) ELSE Lit(4),
                  lpc')
         /\ regs' = regs
         /\ mem' = mem
         /\ perms' = perms]_vars

\* bgeu x1, x2, -8 with x1 = 0xffffffff and x2 = 1 was taken: the pc went back by 8
C16_Witness ==
    /\ phase = "continued"
    /\ Opcode(call.instr) = OPC_BRANCH
    /\ Field(call.instr, 12, 3) = 7
    /\ regs[1] = Neg(1)
    /\ regs[2] = Lit(1)
    /\ BitOf(call.instr, 31) = 1
    /\ IsSum(lpc, Lit(8), call.pc)

\* the RV32I operation of an OP (funct7 = instr[31:25]) or OP-IMM instruction,
\* "none" for an encoding that is not one
AluKind(opcode, funct3, funct7) ==
    CASE funct3 = 0 -> IF opcode = OPC_OP_IMM \/ funct7 = 0 THEN "ADD"
                       ELSE IF funct7 = 32 THEN "SUB" ELSE "none"
      [] funct3 = 1 -> IF funct7 = 0 THEN "SLL" ELSE "none"
      [] funct3 = 5 -> IF funct7 = 0 THEN "SRL" ELSE IF funct7 = 32 THEN "SRA" ELSE "none"
      [] OTHER      -> IF opcode = OPC_OP /\ funct7 # 0 THEN "none"
                       ELSE CASE funct3 = 2 -> "SLT"
                              [] funct3 = 3 -> "SLTU"
                              [] funct3 = 4 -> "XOR"
                              [] funct3 = 6 -> "OR"
                              [] funct3 = 7 -> "AND"

\* c is the RV32I result of the operation on a and b with the shift amount sh
IsAlu(kind, a, b, sh, c) ==
    CASE kind = "ADD"  -> IsSum(a, b, c)
      [] kind = "SUB"  -> IsSum(c, b, a)
      [] kind = "SLT"  -> c = Lit(IF RefLtSigned(a, b) THEN 1 ELSE 0)
      [] kind = "SLTU" -> c = Lit(IF Lt32(a, b) THEN 1 ELSE 0)
      [] kind = "XOR"  -> \A i \in 0..31 : BitOf(c, i) = (BitOf(a, i) + BitOf(b, i)) % 2
      [] kind = "OR"   -> \A i \in 0..31 : BitOf(c, i) = 1 <=> (BitOf(a, i) = 1 \/ BitOf(b, i) = 1)
      [] kind = "AND"  -> \A i \in 0..31 : BitOf(c, i) = BitOf(a, i) * BitOf(b, i)
      [] kind = "SLL"  -> \A i \in 0..31 : BitOf(c, i) = IF i >= sh THEN BitOf(a, i - sh) ELSE 0
      [] kind = "SRL"  -> \A i \in 0..31 : BitOf(c, i) = IF i + sh <= 31 THEN BitOf(a, i + sh) ELSE 0
      [] kind = "SRA"  ->
            \A i \in 0..31 : BitOf(c, i) = IF i + sh <= 31 THEN BitOf(a, i + sh) ELSE BitOf(a, 31)

\* the instruction wrote to rd a value v that satisfies Result and went on to pc + 4
Computed(instr, Result(_)) ==
    /\ ret'.kind = "none"
    /\ IsSum(lpc, Lit(4), lpc')
    /\ Field(instr, 7, 5) # 0 => Result(regs'[Field(instr, 7, 5)])
    /\ OnlyRd(regs, regs', Field(instr, 7, 5), read_reg(regs', Field(instr, 7, 5)))
    /\ mem' = mem
    /\ perms' = perms

\* the second operand of an OP (rs2) or OP-IMM (the sign-extended immediate) instruction
AluOperand(r, instr) ==
    IF Opcode(instr) = OPC_OP
    THEN read_reg(r, Field(instr, 20, 5))
    ELSE RefImm(instr, RouteI)

\* its shift amount: rs2 & 0x1f, or imm[4:0]
AluShift(r, instr) ==
    IF Opcode(instr) = OPC_OP
    THEN Field(read_reg(r, Field(instr, 20, 5)), 0, 5)
    ELSE Field(instr, 20, 5)

AluResult(r, instr, c) ==
    IsAlu(AluKind(Opcode(instr), Field(instr, 12, 3), Field(instr, 25, 7)),
          read_reg(r, Field(instr, 15, 5)), AluOperand(r, instr), AluShift(r, instr), c)

\* C17: for every OP and OP-IMM instruction rd receives the RV32I result:
\* ADD/ADDI/SUB modulo 2^32, SLT/SLTI signed and SLTU/SLTIU unsigned (against the
\* sign-extended immediate) giving 1 or 0, SLL/SRL/SRA shifting by rs2 & 0x1f and
\* SLLI/SRLI/SRAI by imm[4:0], SRA/SRAI replicating the sign bit.
C17_AluResults ==
    [][(/\ Opcode(call'.instr) \in {OPC_OP, OPC_OP_IMM}
        /\ AluKind(Opcode(call'.instr), Field(call'.instr, 12, 3),
                   Field(call'.instr, 25, 7)) # "none") =>
         LET r == regs
             instr == call'.instr
             Result(c) == AluResult(r, instr, c)
         IN  Computed(instr, Result)]_vars

\* sra x3, x1, x2 with x1 = 0x80000000 and x2 = 33 ran: the shift is by 1 and
\* x3 = 0xc0000000
C17_Witness ==
    /\ phase = "continued"
    /\ Opcode(call.instr) = OPC_OP
    /\ Field(call.instr, 12, 3) = 5
    /\ Field(call.instr, 25, 7) = 32
    /\ regs[1] = Mk(32768, 0)
    /\ regs[2] = Lit(33)
    /\ regs[3] = Mk(49152, 0)

\* the bytes of a load: 1, 2 or 4 by funct3 (LB, LH, LW, LBU, LHU)
RefLoadSize(funct3) == IF funct3 \in {0, 4} THEN 1 ELSE IF funct3 \in {1, 5} THEN 2 ELSE 4

\* byte k of the little-endian value at address a of the memory, 0 beyond its size
RefByte(bytes, a, k, size) == IF k < size THEN bytes[a + k] ELSE 0

\* c is the value of size bytes at a, least significant byte first, extended
\* by its top bit (signed) or by zeros
IsLoaded(bytes, a, size, signed, c) ==
    LET u == Mk(RefByte(bytes, a, 2, size) + 256 * RefByte(bytes, a, 3, size),
                RefByte(bytes, a, 0, size) + 256 * RefByte(bytes, a, 1, size))
    IN  \A i \in 0..31 :
            BitOf(c, i) = IF i < 8 * size THEN BitOf(u, i)
                          ELSE IF signed THEN BitOf(u, 8 * size - 1) ELSE 0

\* the effective address of a load or store with the immediate imm
EffectiveAddress(r, instr, imm) == WrappingAdd(read_reg(r, Field(instr, 15, 5)), imm)

\* the size bytes at ea lie inside the memory, short of its last byte
Inside(ea, size) == Hi(ea) = 0 /\ Lo(ea) + size < Cardinality(DOMAIN mem)

LoadContract(instr, funct3, ea) ==
    /\ IsSum(read_reg(regs, Field(instr, 15, 5)), RefImm(instr, RouteI), ea)
    /\ Inside(ea, RefLoadSize(funct3)) => ret'.kind = "none"
    /\ ret'.kind = "InvalidMemoryAccess" => ret'.err.start = ea
    /\ ret'.kind = "none" =>
         LET bytes == mem
             size == RefLoadSize(funct3)
             Result(c) == IsLoaded(bytes, Lo(ea), size, funct3 \in {0, 1}, c)
         IN  Computed(instr, Result)

\* C18: loads assemble multi-byte values little-endian and extend them to 32
\* bits: LB and LH from bit 7 / bit 15, LBU and LHU with zeros, LW unchanged; the
\* effective address is (rs1 + sign-extended imm) mod 2^32.
C18_LoadExtension ==
    [][(Opcode(call'.instr) = OPC_LOAD /\ Field(call'.instr, 12, 3) \in {0, 1, 2, 4, 5}) =>
         LoadContract(call'.instr, Field(call'.instr, 12, 3),
                      EffectiveAddress(regs, call'.instr, RefImm(call'.instr, RouteI)))]_vars

\* lb x3, 2(x1) with x1 = 0 read the byte 0x80 and x3 = 0xffffff80
C18_Witness ==
    /\ phase = "continued"
    /\ Opcode(call.instr) = OPC_LOAD
    /\ Field(call.instr, 12, 3) = 0
    /\ regs[1] = Zero
    /\ mem[2] = 128
    /\ RefImm(call.instr, RouteI) = Lit(2)
    /\ regs[3] = Mk(65535, 65408)

\* the bytes a store of funct3 (SB, SH, SW) writes
RefStoreSize(funct3) == IF funct3 = 0 THEN 1 ELSE IF funct3 = 1 THEN 2 ELSE 4

\* byte k of the u32 v, least significant first
ByteOf(v, k) == Field(v, 8 * k, 8)

StoreContract(instr, size, ea) ==
    /\ IsSum(read_reg(regs, Field(instr, 15, 5)), RefImm(instr, RouteS), ea)
    /\ ret'.kind = "InvalidMemoryAccess" => ret'.err.start = ea
    /\ Inside(ea, size) =>
         /\ ret'.kind = "none"
         /\ IsSum(lpc, Lit(4), lpc')
         /\ regs' = regs
         /\ \A a \in DOMAIN mem :
               mem'[a] = IF a >= Lo(ea) /\ a < Lo(ea) + size
                         THEN ByteOf(read_reg(regs, Field(instr, 20, 5)), a - Lo(ea))
                         ELSE mem[a]

\* C19: for SB/SH/SW the effective address is (rs1 + sign-extended imm) mod
\* 2^32 for all register and immediate values; a store with a negative offset
\* writes at rs1 - |imm| and the engine stays Running.
C19_StoreAddressWraps ==
    [][(Opcode(call'.instr) = OPC_STORE /\ Field(call'.instr, 12, 3) \in {0, 1, 2}) =>
         StoreContract(call'.instr, RefStoreSize(Field(call'.instr, 12, 3)),
                       EffectiveAddress(regs, call'.instr, RefImm(call'.instr, RouteS)))]_vars

\* instr[31:12] in place, zeros below
RouteU(i) == IF i >= 12 THEN i ELSE -1

\* C20: AUIPC writes (pc + imm) mod 2^32 to rd for every pc and every U-type
\* immediate, bit 31 set or not, and LUI writes imm = instr & 0xFFFFF000; in
\* both cases the next pc is pc + 4 and the engine stays Running.
C20_UpperImmediates ==
    [][Opcode(call'.instr) \in {OPC_LUI, OPC_AUIPC} =>
         LET instr == call'.instr
             p == lpc
             Result(c) == IF Opcode(instr) = OPC_LUI
                          THEN c = RefImm(instr, RouteU)
                          ELSE IsSum(p, RefImm(instr, RouteU), c)
         IN  Computed(instr, Result)]_vars

\* the valid RV32I encodings, field by field
ValidWord(opcode, funct3, funct7, rd, rs1, imm) ==
    CASE opcode \in {55, 23, 111} -> TRUE
      [] opcode = 103 -> funct3 = 0
      [] opcode = 99  -> funct3 \in {0, 1, 4, 5, 6, 7}
      [] opcode = 3   -> funct3 \in {0, 1, 2, 4, 5}
      [] opcode = 35  -> funct3 \in {0, 1, 2}
      [] opcode = 19  -> /\ funct3 = 1 => funct7 = 0
                         /\ funct3 = 5 => funct7 \in {0, 32}
      [] opcode = 51  -> <<funct3, funct7>> \in
                             ({0, 1, 2, 3, 4, 5, 6, 7} \X {0}) \cup {<<0, 32>>, <<5, 32>>}
      [] opcode = 15  -> funct3 = 0
      [] opcode = 115 -> rs1 = 0 /\ rd = 0 /\ funct3 = 0 /\ imm \in {0, 1}
      [] OTHER -> FALSE

Valid(instr) ==
    ValidWord(Field(instr, 0, 7), Field(instr, 12, 3), Field(instr, 25, 7),
              Field(instr, 7, 5), Field(instr, 15, 5), Field(instr, 20, 12))

\* C21: a fetched word that is no valid RV32I encoding (unknown opcode, unused
\* funct3 of BRANCH, LOAD, STORE, OP-IMM, JALR or FENCE, an OP outside the ten
\* (funct3, funct7) pairs, SLLI with imm[11:5] # 0, SRLI/SRAI with imm[11:5]
\* outside {0, 0x20}, SYSTEM with rs1, rd or funct3 set or imm outside {0, 1})
\* makes run return InvalidInstruction(word); ECALL makes it return Syscall
\* and EBREAK Break.
C21_InvalidEncodings ==
    [][(call'.op = "step" /\ call'.fetched) =>
         /\ ~Valid(call'.instr) => ret' = [kind |-> "InvalidInstruction", instr |-> call'.instr]
         /\ call'.instr = Lit(115) => ret' = [kind |-> "Syscall"]
         /\ call'.instr = Mk(16, 115) => ret' = [kind |-> "Break"]]_vars

\* C23: one iteration of the engine is total: it goes on to the next
\* instruction or run returns exactly one of Syscall, Break,
\* InvalidInstruction, InvalidMemoryAccess; the host process never ends
\* abnormally (no arithmetic overflow abort, no index out of range).
C23_StepTotal ==
    [][call'.op = "step" =>
         /\ ret'.kind \in {"none", "Syscall", "Break", "InvalidInstruction",
                           "InvalidMemoryAccess"}
         /\ phase' # "panicked"]_vars

---------------------------------------------------------------------------
(* Claims about run's exits and the syscalls of main (checked under SpecSys). *)

\* C22: whenever run returns, emu.pc is the address of the instruction that
\* caused the exit (the ECALL or EBREAK, the invalid word, the faulting load
\* or store) or the address whose fetch failed; it is never already advanced.
C22_ExitPc ==
    [][(call'.op = "step" /\ phase' = "exited") =>
         /\ pc' = lpc
         /\ call'.pc = lpc
         /\ ~IsSum(lpc, Lit(4), pc')
         /\ ret'.kind \in {"Syscall", "Break", "InvalidInstruction", "InvalidMemoryAccess"}
         /\ ~call'.fetched => ret'.kind = "InvalidMemoryAccess"]_vars

\* run returned from a fetch that failed in the heap, after a serviced ECALL
\* and a jump
C22_Witness ==
    /\ phase = "exited"
    /\ call.op = "step"
    /\ ~call.fetched
    /\ ret.kind = "InvalidMemoryAccess"
    /\ pc = Lit(SysHeapBase)
    /\ steps = 3

\* the syscalls main services and returns from
Serviced == {Lit(57), Lit(64), Lit(80), Lit(214)}

\* C24: when run returns Syscall with a7 one of close, write, fstat, brk and
\* the syscall is serviced, main stores the return value in a0, sets pc to the
\* address of the ECALL plus 4 and leaves every other register unchanged; the
\* next run starts by fetching the instruction right after the ECALL, so no
\* ECALL is executed again.
C24_SyscallReturn ==
    [][/\ (call'.op = "dispatch" /\ phase' = "run") =>
            /\ ret.kind = "Syscall"
            /\ regs[17] \in Serviced
            /\ call.op = "step" /\ call.instr = Lit(115) /\ call.pc = pc
            /\ regs'[10] = ret'.val
            /\ regs[17] \in {Lit(57), Lit(80)} => regs'[10] = Zero
            /\ IsSum(pc, Lit(4), pc')
            /\ \A i \in (1..31) \ {10} : regs'[i] = regs[i]
       /\ (call.op = "dispatch" /\ call'.op = "step") =>
            IsSum(call.pc, Lit(4), call'.pc)]_vars

\* fstat was serviced: a0 = 0 and pc is behind the first ECALL
C24_Witness ==
    /\ call.op = "dispatch"
    /\ call.no = Lit(80)
    /\ phase = "run"
    /\ regs[10] = Zero
    /\ pc = Lit(4)
    /\ regs[11] = Lit(SysHeapBase)

\* a > b as unsigned 32-bit numbers
ExceedsU(a, b) == a[1] > b[1] \/ (a[1] = b[1] /\ a[2] > b[2])

\* C25: brk(0) returns current_brk and leaves it unchanged (heap_start for the
\* first brk of the process); brk(n) with n > heap_end leaves current_brk
\* unchanged and returns it; every other brk(n) sets current_brk to n and
\* returns n; brk changes no byte of memory and no permission byte.
C25_Brk ==
    [][(call'.op = "dispatch" /\ ret.kind = "Syscall" /\ regs[17] = Lit(214)) =>
         /\ phase' = "run"
         /\ mem' = mem /\ perms' = perms /\ free' = free
         /\ IF regs[10] = Zero \/ ExceedsU(regs[10], main.heap_end)
            THEN /\ main'.current_brk = main.current_brk
                 /\ regs'[10] = main.current_brk
            ELSE /\ main'.current_brk = regs[10]
                 /\ regs'[10] = regs[10]
         /\ (regs[10] = Zero /\ steps = 1) => regs'[10] = main.heap_start]_vars

\* brk(0) after a brk that moved the break: it returns the moved break
C25_Witness ==
    /\ call.op = "dispatch"
    /\ call.no = Lit(214)
    /\ steps = 3
    /\ main.current_brk = Lit(SysHeapBase + 4)
    /\ regs[10] = Lit(SysHeapBase + 4)
    /\ phase = "run"

\* the addresses of [buf, buf + count)
BufferAddrs(buf, count) == {a \in 0..(SysMemorySize - 1) : \E k \in 0..(Lo(count) - 1) :
                               IsSum(buf, Lit(k), Lit(a))}

\* C26: write with fd 1 or 2 reads count bytes at buf, requiring the R bit on
\* every byte, and returns 0; with any other fd it reads nothing and returns
\* ~1 = 0xFFFFFFFE; in both cases memory, permissions and every register but
\* a0 are unchanged.
C26_Write ==
    [][(call'.op = "dispatch" /\ ret.kind = "Syscall" /\ regs[17] = Lit(64)) =>
         /\ regs[10] \notin {Lit(1), Lit(2)} =>
               /\ phase' = "run"
               /\ regs'[10] = Mk(65535, 65534)
         /\ (regs[10] \in {Lit(1), Lit(2)} /\ phase' = "run") =>
               /\ regs'[10] = Zero
               /\ \A a \in BufferAddrs(regs[11], regs[12]) : HasPerm(perms[a], 1)
         /\ phase' = "run" =>
               /\ mem' = mem /\ perms' = perms
               /\ \A i \in (1..31) \ {10} : regs'[i] = regs[i]]_vars

\* write(fd 1 or 2) of the four readable bytes at 0 returned 0
C26_Witness ==
    /\ call.op = "dispatch"
    /\ call.no = Lit(64)
    /\ phase = "run"
    /\ regs[11] = Zero
    /\ regs[12] = Lit(4)
    /\ regs[10] = Zero
    /\ steps = 1

\* C27: a write with fd 1 or 2 whose buffer is out of bounds or has a byte
\* without R, and an fstat whose 128-byte statbuf is out of bounds or not
\* writable, do not abort the emulator: the guest receives a return value in
\* a0 and continues at pc + 4.
C27_SyscallFailuresReturn ==
    [][(call'.op = "dispatch" /\ ret.kind = "Syscall" /\ regs[17] \in {Lit(64), Lit(80)}) =>
         /\ phase' = "run"
         /\ ret'.kind = "SyscallReturn"
         /\ regs'[10] = ret'.val
         /\ IsSum(pc, Lit(4), pc')]_vars

\* C28: an ECALL with a7 = 93 ends the emulator: no further guest instruction
\* is executed and the exit code of the process is a0 (0x11000 for lui a0,
\* 0x11; addi a7, zero, 93; ecall).
C28_Exit ==
    [][/\ (call'.op = "dispatch" /\ ret.kind = "Syscall" /\ regs[17] = Lit(93)) =>
            /\ phase' = "done"
            /\ ret'.status = regs[10]
       /\ phase # "done"]_vars

\* C36: after any sequence of brk syscalls with arbitrary arguments the
\* recorded program break stays inside the heap:
\* heap_start <= current_brk <= heap_end.
C36_BrkInsideHeap ==
    /\ ~ExceedsU(main.heap_start, main.current_brk)
    /\ ~ExceedsU(main.current_brk, main.heap_end)

\* the size bytes at ea are bytes of the memory with the W bit
Writable(ea, size) ==
    /\ Hi(ea) = 0
    /\ \A k \in 0..(size - 1) :
          /\ Lo(ea) + k \in DOMAIN mem
          /\ HasPerm(perms[Lo(ea) + k], PERM_WRITE)

\* the bytes [ea, ea + size) are bytes of the memory
InMemory(ea, size) == Hi(ea) = 0 /\ Lo(ea) + size <= Cardinality(DOMAIN mem)

\* the addresses of the segments loaded without PF_W
ReadOnlyAddrs ==
    {a \in DOMAIN mem :
        \E i \in SegmentsAt(elf.load_segments, a) : ~FlagSet(elf.load_segments[i].flags, 2)}

\* the store instr with a target byte that lacks W exits BadPermissions and
\* leaves every byte and every permission byte
StoreRefused(instr, size, ea) ==
    (InMemory(ea, size) /\ ~Writable(ea, size)) =>
        /\ ret'.kind = "InvalidMemoryAccess"
        /\ ret'.err.kind = "BadPermissions"
        /\ mem' = mem
        /\ perms' = perms

\* C33: an SB/SH/SW whose target range contains a byte lacking W exits
\* InvalidMemoryAccess(BadPermissions) and changes no memory byte and no
\* permission byte, not even of the leading bytes that were writable; the
\* bytes of a segment loaded without W are never changed by guest stores.
C33_NoPartialStore ==
    [][(call'.op = "step" /\ steps' = steps + 1) =>
         /\ (call'.fetched /\ Opcode(call'.instr) = OPC_STORE
                           /\ Field(call'.instr, 12, 3) \in {0, 1, 2}) =>
               StoreRefused(call'.instr, RefStoreSize(Field(call'.instr, 12, 3)),
                            EffectiveAddress(regs, call'.instr, RefImm(call'.instr, RouteS)))
         /\ \A a \in ReadOnlyAddrs : mem'[a] = mem[a]]_vars

\* the permission byte after differs from before at most by RAW cleared and
\* R set
OnlyRawCleared(before, after) ==
    \/ after = before
    \/ /\ HasPerm(before, PERM_RAW)
       /\ after = BitOr(before - PERM_RAW, PERM_READ)

\* the four bytes at the address lie in segments loaded with PF_X
InExecutableSegment(addr) ==
    /\ Hi(addr) = 0
    /\ \A k \in 0..3 :
          \E i \in SegmentsAt(elf.load_segments, Lo(addr) + k) :
              FlagSet(elf.load_segments[i].flags, 1)

\* the four bytes at the address are bytes of the stack or of the heap
InStackOrHeap(addr) ==
    /\ Hi(addr) = 0
    /\ \E k \in 0..3 :
          \/ Lo(main.stack_start) <= Lo(addr) + k /\ Lo(addr) + k < Lo(main.stack_end)
          \/ Lo(main.heap_start) <= Lo(addr) + k /\ Lo(addr) + k < Lo(main.heap_end)

\* the instructions and the syscalls leave the free set and the W and X bits
FrameOfExecution ==
    /\ free' = free
    /\ DOMAIN perms' = DOMAIN perms
    /\ \A a \in DOMAIN perms :
          /\ HasPerm(perms'[a], PERM_WRITE) = HasPerm(perms[a], PERM_WRITE)
          /\ HasPerm(perms'[a], PERM_EXEC) = HasPerm(perms[a], PERM_EXEC)
          /\ OnlyRawCleared(perms[a], perms'[a])
          /\ perms'[a] # perms[a] => a \in DOMAIN written'

\* C38: during guest execution (instructions and serviced syscalls after the
\* initialisation of the process) the free set never changes and the W and X
\* bits of every permission byte never change; the only permission change is
\* RAW cleared and R set on written bytes.  Hence a byte is fetched as an
\* instruction only if it lies in a segment loaded with X, and bytes of the
\* stack and heap are never executed.
C38_ExecutionFrame ==
    [][/\ FrameOfExecution
       /\ (call'.op = "step" /\ steps' = steps + 1 /\ call'.fetched) =>
             /\ InExecutableSegment(call'.pc)
             /\ ~InStackOrHeap(call'.pc)]_vars

---------------------------------------------------------------------------
(* Claims about two calls of the loop body (checked under SpecExecSeq). *)

\* c is the low 8 * size bits of v, extended with zeros
IsLowBits(v, size, c) ==
    \A i \in 0..31 : BitOf(c, i) = IF i < 8 * size THEN BitOf(v, i) ELSE 0

\* the store instr with all its target bytes writable goes on, writes the
\* low bytes of rs2 least significant first and nothing else
StoreFrame(instr, size, ea) ==
    Writable(ea, size) =>
        /\ ret'.kind = "none"
        /\ regs' = regs
        /\ \A a \in DOMAIN mem :
              mem'[a] = IF a >= Lo(ea) /\ a < Lo(ea) + size
                        THEN ByteOf(read_reg(regs, Field(instr, 20, 5)), a - Lo(ea))
                        ELSE mem[a]

\* the unsigned load instr after the store before: rd holds the low bits of
\* the register the store wrote from
LoadBack(store, instr) ==
    /\ ret'.kind = "none"
    /\ IsLowBits(read_reg(regs, Field(store, 20, 5)), RefLoadSize(Field(instr, 12, 3)),
                 read_reg(regs', Field(instr, 7, 5)))

\* C32: SB, SH and SW with all target bytes writable store exactly the low 8,
\* 16 or 32 bits of rs2, least significant byte first, into the 1, 2 or 4
\* bytes at the effective address; every other memory byte and every register
\* is unchanged, and a following LW/LHU/LBU at the same address returns the
\* stored low bits.
C32_StoreLoadRoundTrip ==
    [][/\ (steps = 0 /\ Opcode(call'.instr) = OPC_STORE /\ Field(call'.instr, 12, 3) \in {0, 1, 2}) =>
            StoreFrame(call'.instr, RefStoreSize(Field(call'.instr, 12, 3)),
                       EffectiveAddress(regs, call'.instr, RefImm(call'.instr, RouteS)))
       /\ (steps = 1 /\ phase = "continued" /\ Opcode(call.instr) = OPC_STORE) =>
            LoadBack(call.instr, call'.instr)]_vars

\* C37: a faulting instruction has no partial effect: when run exits with
\* InvalidInstruction, or with InvalidMemoryAccess raised by a load or store,
\* the registers, memory bytes and permission bytes are those before the
\* instruction (rd of a faulting load is not written), and run called again
\* on the unchanged state returns the same exit at the same pc.
C37_FaultHasNoEffect ==
    [][ret'.kind \in {"InvalidInstruction", "InvalidMemoryAccess"} =>
         /\ regs' = regs
         /\ mem' = mem
         /\ perms' = perms
         /\ pc' = call'.pc
         /\ (phase = "exited" /\ steps = 1) =>
               /\ ret' = ret
               /\ pc' = pc]_vars

\* lw x3, 4(x1) at the last word of the memory exited twice and never wrote x3
C37_Witness ==
    /\ steps = 2
    /\ phase = "exited"
    /\ ret.kind = "InvalidMemoryAccess"
    /\ call.instr = EncI(OPC_LOAD, 3, 2, 1, Lit(4))
    /\ regs[1] = Zero
    /\ regs[3] = Zero

=============================================================================
